---- MODULE Spec2Model ----
(***************************************************************************)
(* The streaming tool-execution and delegation engine of agent-forge:      *)
(* Agent.ChatStream / executeChatWithTools / executeTool, the agent-level  *)
(* responseCh with its Start goroutine, the LLM engine's sub-stream, the   *)
(* validating tools and the delegate tool.                                 *)
(*                                                                         *)
(* Text is a sequence of tokens; string concatenation is \o.  A Go channel *)
(* is a FIFO sequence plus a closed flag; a select over several ready      *)
(* cases is a nondeterministic choice among them.                          *)
(***************************************************************************)
EXTENDS Integers, Sequences, FiniteSets, TLC

\* ------------------------------------------------------------------ bounds
MaxIter == 2        \* maxToolIterations of an agent configured without sub-agents
DelegMaxIter == 1   \* maxToolIterations of the agents of the delegation configuration
MaxContent == 1     \* content chunks the LLM engine streams per model call
MaxRuns == 1        \* ChatStream calls the user makes on the main agent
MaxDelegations == 1 \* delegate calls the main agent's model requests per Run
RepeatRuns == 2     \* ChatStream calls on the agent that persists its history
RepeatMaxIter == 1  \* maxToolIterations of the agent that persists its history
MaxFaults == 1      \* failed reads and writes of history files
MaxLoggerCalls == 2 \* GetLogger and InitLogger calls of each goroutine
MaxDirs == 2        \* directories from the working directory up to the root
MaxLines == 1       \* key=value lines of a .env file
MaxParams == 2      \* declared parameters of the tool whose arguments are validated
MaxCloseCalls == 2  \* Close calls of each goroutine on the one stream

\* ------------------------------------------------------- program constants
ResponseCap == 10   \* make(chan []byte, 10)
ErrorCap == 1       \* make(chan error, 1)
SearchLevels == 5   \* for i := 0; i < 5; i++ in GetEnvVar

\* ------------------------------------------------------------ configuration
\* Two agents, "main" and "sub"; whether sub is a sub-agent of main is part of
\* the configuration the model starts from.
Agents == {"main", "sub"}

\* a.trace, the optional trace label of the agent's configuration.
VARIABLE trace

TraceOf(a) == trace[a]

\* The trace labels a configuration may give the agents ("" is none).
Traces(a) == IF a = "main" THEN {"response"} ELSE {"reasoning", ""}

\* a.persistence, the persistence type of the agent's configuration ("" is
\* none, "json" the JSON file of the agent).
VARIABLE persistence

\* The context the LLM engines were created with has been cancelled
\* (ctx.Done() is closed).
VARIABLE ctxDone

\* The package-level logger and the goroutines that call GetLogger and
\* InitLogger.
Goroutines == {"g1", "g2"}

VARIABLES
    defaultLogger,    \* defaultLogger: 0 is nil, otherwise the *Logger instance
    loggerOnce,       \* loggerOnce: "fresh", "running" (Do is inside f) or "done"
    loggers,          \* the Logger instances NewLogger has allocated so far
    logPc,            \* where each goroutine is inside GetLogger or InitLogger
    logCalls,         \* the calls each goroutine has made
    obtained          \* the instances GetLogger has returned to each goroutine

loggerVars == <<defaultLogger, loggerOnce, loggers, logPc, logCalls, obtained>>

\* The package state before any call (var defaultLogger *Logger; var
\* loggerOnce sync.Once).
LoggerStart ==
    /\ defaultLogger = 0
    /\ loggerOnce = "fresh"
    /\ loggers = 0
    /\ logPc = [g \in Goroutines |-> "idle"]
    /\ logCalls = [g \in Goroutines |-> 0]
    /\ obtained = [g \in Goroutines |-> {}]

\* What the configuration is loaded from, and the loaded configuration.
VARIABLES
    envFiles,         \* the .env files from the working directory up to the root
    environ,          \* the process environment ("" is an unset variable)
    config            \* what getEnv returned for each key (<<>> before NewConfig)

configVars == <<envFiles, environ, config>>

\* The keys of Config and their default values.
Keys == {"AF_LOG_LEVEL", "AF_OPENAI_API_KEY"}
Default(key) == IF key = "AF_LOG_LEVEL" THEN "INFO" ELSE ""

\* A directory without a .env file, and one whose .env file has these
\* key=value lines.
NoEnvFile == [exists |-> FALSE, lines |-> <<>>]
EnvFile(lines) == [exists |-> TRUE, lines |-> lines]

\* A process with these .env files and this environment, before NewConfig.
ConfigStart(files, env) ==
    /\ envFiles = files
    /\ environ = env
    /\ config = [k \in Keys |-> <<>>]

\* A tool with declared parameters, the argument map of a call to it, and what
\* ValidateAndExtractArgs made of the call.
VARIABLES
    valParams,        \* b.parameters
    valArgs,          \* args
    valOutcome        \* <<>> before the call, then what the call returned and did

validationVars == <<valParams, valArgs, valOutcome>>

\* A tool and an argument map, before validation.
ValidationStart(params, args) ==
    /\ valParams = params
    /\ valArgs = args
    /\ valOutcome = <<>>

\* A stream (responseCh) on its own, and the goroutines that call Close on it.
Closers == {"c1", "c2", "c3"}

VARIABLES
    rcMu,             \* rc.mu: the goroutine that holds it ("" when free)
    rcClosed,         \* rc.closed
    rcResponseCloses, \* close(rc.Response) statements executed
    rcErrorCloses,    \* close(rc.Error) statements executed
    rcPanicked,       \* a close of a closed channel has panicked
    closePc,          \* where each goroutine is inside Close
    closeCalls        \* the Close calls each goroutine has made

closeVars == <<rcMu, rcClosed, rcResponseCloses, rcErrorCloses, rcPanicked, closePc, closeCalls>>

\* newResponseCh: open channels, nobody inside Close.
StreamStart ==
    /\ rcMu = ""
    /\ rcClosed = FALSE
    /\ rcResponseCloses = 0
    /\ rcErrorCloses = 0
    /\ rcPanicked = FALSE
    /\ closePc = [g \in Closers |-> "idle"]
    /\ closeCalls = [g \in Closers |-> 0]

\* The state of the program outside the agents.
programVars == <<ctxDone, loggerVars, configVars, validationVars, closeVars>>

\* A process whose context is live, whose logger is untouched, and that has
\* no .env file and an empty environment.
ProgramStart ==
    /\ ctxDone = FALSE
    /\ LoggerStart
    /\ ConfigStart(<<NoEnvFile>>, [k \in Keys |-> ""])
    /\ ValidationStart(<<>>, {})
    /\ StreamStart

\* NewAgent: the configured tools, plus the delegate tool when there are
\* sub-agents.
NewAgentTools(subs) ==
    IF Len(subs) > 0 THEN <<"foo", "delegate">> ELSE <<"foo">>

\* Status constants of llms/constants.go
StatusStreaming == "streaming"
StatusCompleted == "completed"
StatusError == "error"
StatusToolCall == "tool-call"
StatusToolExecuting == "tool-executing"
StatusToolResult == "tool-result"

\* ------------------------------------------------------------------ values
\* A JSON argument value: its Go dynamic type and its text.
Str(s) == [type |-> "string", value |-> s]
Num(s) == [type |-> "number", value |-> s]

\* One entry of an argument map.
Arg(n, v) == [name |-> n, val |-> v]

\* llms.ToolCall
ToolCall(id, name, args) == [id |-> id, name |-> name, args |-> args]

\* The nil *ToolCall of a chunk that is not a tool-executing chunk.
NoToolCall == ToolCall(<<>>, "", {})

\* llms.ToolResult
ToolResult(id, name, success, result, error) ==
    [toolCallID |-> id, toolName |-> name, success |-> success,
     result |-> result, error |-> error]

\* tools.ToolResponse (llms.ToolReturn) built by the three constructors.
NewSuccessResponse(data) == [success |-> TRUE, error |-> <<>>, data |-> data]
NewErrorResponse(errorMsg) == [success |-> FALSE, error |-> errorMsg, data |-> <<>>]
NewFailureResponse(errorMsg, data) == [success |-> FALSE, error |-> errorMsg, data |-> data]

\* llms.ChunkResponse / agents.extendedChunkResponse after JSON encoding: a
\* ChunkResponse has no agentName/trace keys, so they decode as "".
Chunk(status, content, calls, executing, results, tokens, agentName, traceLabel) ==
    [status |-> status, content |-> content, toolCalls |-> calls,
     toolExecuting |-> executing, toolResults |-> results, tokens |-> tokens,
     agentName |-> agentName, trace |-> traceLabel]

ContentChunk(text) == Chunk(StatusStreaming, text, <<>>, NoToolCall, <<>>, 0, "", "")
ToolCallChunk(calls) == Chunk(StatusToolCall, <<>>, calls, NoToolCall, <<>>, 0, "", "")
CompletedChunk(tokens) == Chunk(StatusCompleted, <<>>, <<>>, NoToolCall, <<>>, tokens, "", "")
ExecutingChunk(call) == Chunk(StatusToolExecuting, <<>>, <<>>, call, <<>>, 0, "", "")
ResultChunk(result) == Chunk(StatusToolResult, <<>>, <<>>, NoToolCall, <<result>>, 0, "", "")

\* The chunk Start() builds from an error taken from the Error channel.
ErrorChunk(text, a) == Chunk(StatusError, text, <<>>, NoToolCall, <<>>, 0, a, TraceOf(a))

\* An error of the LLM sub-stream, as a chunk (llms.responseCh.Start's form).
LLMErrorChunk(text) == Chunk(StatusError, text, <<>>, NoToolCall, <<>>, 0, "", "")

\* llms.UnifiedMessage and its constructors.
Message(role, content, toolCallID, calls, tokens) ==
    [role |-> role, content |-> content, toolCallID |-> toolCallID,
     toolCalls |-> calls, tokens |-> tokens]

SystemMessage(content) == Message("system", content, <<>>, <<>>, 0)
UserMessage(content) == Message("user", content, <<>>, <<>>, 0)
AssistantMessage(content, tokens) == Message("assistant", content, <<>>, <<>>, tokens)
\* An assistant message that leaves the requested tool calls out.
AssistantMessageWithoutToolCalls(content, calls, tokens) ==
    Message("assistant", content, <<>>, <<>>, tokens)

AssistantMessageWithToolCalls(content, calls, tokens) ==
    Message("assistant", content, <<>>, calls, tokens)
ToolMessage(toolCallID, content) == Message("tool", content, toolCallID, <<>>, 0)

\* Error texts (fmt.Sprintf / fmt.Errorf results).
ToolNotFound(name) == <<"tool not found: ", name>>
MissingRequired(name) == <<"missing required parameter: ", name>>
InvalidType(name, err) == <<"invalid type for ", name, ": ">> \o err
ValidationFailed(name, err) == <<"validation failed for ", name, ": ">> \o err
SubAgentNotFound(name) == <<"sub agent '", name, "' not found">>
DelegationErrorText(content) == <<"delegation error: ">> \o content
LLMStreamError(err) == <<"llm stream error: ">> \o err
MaxIterationsError(n) == <<"reached maximum tool iterations (", ToString(n), ")">>
OpenAIStreamError == <<"openai stream error: ", "EOF">>

\* ------------------------------------------------------- tools, validation
\* Declared parameters of the tools (foo, delegate).
Param(n, t, req, validator) == [Name |-> n, Type |-> t, Required |-> req, Validator |-> validator]

Parameters(tool) ==
    CASE tool = "foo" -> <<Param("echo", "string", TRUE, "")>>
      [] tool = "delegate" -> <<Param("subAgent", "string", TRUE, ""),
                                Param("message", "string", TRUE, "")>>
      [] OTHER -> <<>>

Exists(args, n) == \E e \in args : e.name = n
Lookup(args, n) == (CHOOSE e \in args : e.name = n).val

\* validateType: <<>> is the nil error.
validateType(value, expectedType) ==
    IF expectedType \in {"string", "number", "boolean", "object", "array"}
       /\ value.type # expectedType
    THEN <<"expected ", expectedType, ", got ", value.type>>
    ELSE <<>>

\* A custom validator, by name: "" is none, "nonEmpty" rejects the empty text.
RunValidator(validator, value) ==
    IF validator = "nonEmpty" /\ value.value = "" THEN <<"must not be empty">> ELSE <<>>

\* A variant that runs the custom validator of a parameter before it checks
\* the type of the value.
RECURSIVE ValidateFromValidatorFirst(_, _, _, _, _)
ValidateFromValidatorFirst(params, i, args, validated, checks) ==
    IF i > Len(params)
    THEN [failed |-> FALSE, ret |-> NewSuccessResponse(<<>>), validated |-> validated,
          checks |-> checks]
    ELSE LET param == params[i]
             exists == Exists(args, param.Name)
             looked == Append(checks, <<"required", i>>)
         IN IF param.Required /\ ~exists
            THEN [failed |-> TRUE, ret |-> NewErrorResponse(MissingRequired(param.Name)),
                  validated |-> {}, checks |-> looked]
            ELSE IF ~exists THEN ValidateFromValidatorFirst(params, i + 1, args, validated, looked)
            ELSE LET value == Lookup(args, param.Name)
                     terr == validateType(value, param.Type)
                     verr == RunValidator(param.Validator, value)
                     custom == IF param.Validator # ""
                               THEN Append(looked, <<"validator", i>>) ELSE looked
                     typed == Append(custom, <<"type", i>>)
                 IN IF param.Validator # "" /\ verr # <<>>
                    THEN [failed |-> TRUE,
                          ret |-> NewErrorResponse(ValidationFailed(param.Name, verr)),
                          validated |-> {}, checks |-> custom]
                    ELSE IF terr # <<>>
                    THEN [failed |-> TRUE,
                          ret |-> NewErrorResponse(InvalidType(param.Name, terr)),
                          validated |-> {}, checks |-> typed]
                    ELSE ValidateFromValidatorFirst(params, i + 1, args,
                             validated \cup {Arg(param.Name, value)}, typed)

\* ValidateAndExtractArgs: the parameters are examined in declaration order;
\* the result is [failed, ret, validated, checks], ret being the synthesized
\* response and checks the record of what was done, in order: the lookup of a
\* parameter ("required"), a call of validateType ("type"), a call of
\* param.Validator ("validator"), each with the parameter's position.
RECURSIVE ValidateFrom(_, _, _, _, _)
ValidateFrom(params, i, args, validated, checks) ==
    IF i > Len(params)
    THEN [failed |-> FALSE, ret |-> NewSuccessResponse(<<>>), validated |-> validated,
          checks |-> checks]
    ELSE LET param == params[i]
             exists == Exists(args, param.Name)
             looked == Append(checks, <<"required", i>>)
         IN IF param.Required /\ ~exists
            THEN [failed |-> TRUE, ret |-> NewErrorResponse(MissingRequired(param.Name)),
                  validated |-> {}, checks |-> looked]
            ELSE IF ~exists THEN ValidateFrom(params, i + 1, args, validated, looked)
            ELSE LET value == Lookup(args, param.Name)
                     terr == validateType(value, param.Type)
                     verr == RunValidator(param.Validator, value)
                     typed == Append(looked, <<"type", i>>)
                     custom == Append(typed, <<"validator", i>>)
                 IN IF terr # <<>>
                    THEN [failed |-> TRUE,
                          ret |-> NewErrorResponse(InvalidType(param.Name, terr)),
                          validated |-> {}, checks |-> typed]
                    ELSE IF param.Validator # "" /\ verr # <<>>
                    THEN [failed |-> TRUE,
                          ret |-> NewErrorResponse(ValidationFailed(param.Name, verr)),
                          validated |-> {}, checks |-> custom]
                    ELSE ValidateFrom(params, i + 1, args,
                             validated \cup {Arg(param.Name, value)},
                             IF param.Validator # "" THEN custom ELSE typed)

\* A validation that accepts every argument map.
ValidateNothing(tool, args) ==
    [failed |-> FALSE, ret |-> NewSuccessResponse(<<>>), validated |-> args, checks |-> <<>>]

ValidateAndExtractArgs(tool, args) == ValidateFrom(Parameters(tool), 1, args, {}, <<>>)

\* A lookup that finds a tool under every name.
FindAnyTool(toolList, name) == Len(toolList) > 0

\* for _, t := range a.tools { if t.GetName() == toolCall.Name ... }
FindTool(toolList, name) == \E i \in 1..Len(toolList) : toolList[i] = name

\* for _, subAgent := range subAgents { if subAgent.Name() == subAgentName ... }
FindSubAgent(subs, name) == \E i \in 1..Len(subs) : subs[i] = name

\* executeTool's conversion of the tool's return into a ToolResult.
ToToolResult(call, ret) == ToolResult(call.id, call.name, ret.success, ret.data, ret.error)

\* What the handler returns for validated arguments: foo echoes args["echo"]
\* (nil when the map has no such key).
HandlerReturn(tool, validated) ==
    IF Exists(validated, "echo")
    THEN NewSuccessResponse(<<Lookup(validated, "echo").value>>)
    ELSE NewSuccessResponse(<<>>)

\* ------------------------------------------------------------------- state
VARIABLES
    \* Agent
    subAgents,        \* a.subAgents (their names)
    maxToolIterations,\* a.maxToolIterations
    systemPrompt,     \* a.systemPrompt
    tools,            \* a.tools
    history,          \* a.history.history
    hasSystemMessage, \* a.history.hasSystemMessage
    stored,           \* the history file of a.history.persistence (<<>>: no file)
    faults,           \* reads and writes of history files that have failed
    \* the Run's producer goroutine (executeChatWithTools and what it calls)
    pc,               \* where the goroutine is
    iteration,        \* iteration
    fullContent,      \* fullContent
    toolCalls,        \* toolCalls
    hasToolCalls,     \* hasToolCalls
    completedChunk,   \* completedChunkBytes (<<>> is nil), its token usage inside
    chunkBytes,       \* the chunk about to be sent on the agent stream
    callIndex,        \* position of the range loop over toolCalls
    toolResult,       \* toolResult of the call being executed
    runErr,           \* the error executeChatWithTools returned (<<>> is nil)
    \* the delegate tool's handler, running inside the parent's goroutine
    fullResponse,     \* fullResponse
    delegationError,  \* delegationError (<<>> is nil)
    \* the LLM engine's sub-stream of the current model call
    llmPc,            \* where streamResponse is
    llmSent,          \* content chunks streamed so far in this model call
    llmResponse,      \* llmResponseCh.Response
    llmError,         \* llmResponseCh.Error
    llmClosed,        \* llmResponseCh.closed
    \* the agent stream of the current Run
    Response,         \* agentResponseCh.Response
    Error,            \* agentResponseCh.Error
    closed,           \* agentResponseCh.closed
    \* the goroutine of Start() over the agent stream
    startPc,          \* where it is
    startChunk,       \* the chunk it is about to send on chunkChan
    received,         \* what the reader of chunkChan has received, in order
    \* history of the execution, for stating properties
    runs,             \* ChatStream calls made on each agent
    toolsAtChatStream, \* a.tools when the current Run's ChatStream was called
    produced,         \* what the producer sent on the agent stream, in order
    iterStart,        \* Len(produced) when the current model call was made
    modelCalls,       \* llmEngine.ChatStream calls in the current Run
    toolRequests,     \* model calls of the Run in which a tool-call chunk was emitted
    llmEmitted,       \* what the LLM engine emitted in the current model call
    lastMessages,     \* the messages passed to the latest model call
    toolsSent,        \* the tools passed to the latest model call
    handlerCalls,     \* tool handler invocations in the current Run
    delegations       \* delegate calls requested by the model in the Run

agentVars == <<programVars, trace, persistence, subAgents, maxToolIterations, systemPrompt, tools, history,
               hasSystemMessage, stored, faults>>
loopVars == <<iteration, fullContent, toolCalls, hasToolCalls, completedChunk,
              chunkBytes, callIndex, toolResult, runErr>>
delegateVars == <<fullResponse, delegationError>>
llmVars == <<llmPc, llmSent, llmResponse, llmError, llmClosed>>
streamVars == <<Response, Error, closed>>
startVars == <<startPc, startChunk, received>>
ghostVars == <<runs, toolsAtChatStream, produced, iterStart, modelCalls, toolRequests, llmEmitted,
               lastMessages, toolsSent, handlerCalls, delegations>>

vars == <<agentVars, pc, loopVars, delegateVars, llmVars, streamVars, startVars, ghostVars>>

\* The state of the agents, their streams and their goroutines.
agentState == <<trace, persistence, subAgents, maxToolIterations, systemPrompt, tools,
                history, hasSystemMessage, stored, faults, pc, loopVars, delegateVars,
                llmVars, streamVars, startVars, ghostVars>>

\* The configured system prompts.
ConfiguredPrompt(a) == IF a = "main" THEN <<"You are a main agent">> ELSE <<>>

\* config.MainAgent; addSubAgents clears it on every sub-agent.
MainAgent(a) == a = "main"

\* NewAgent for both agents, given each one's sub-agents, iteration cap and
\* trace label.
NewAgents(subs, iterations, traces, types) ==
    /\ trace = traces
    /\ persistence = types
    /\ stored = [a \in Agents |-> <<>>]
    /\ faults = 0
    /\ subAgents = subs
    /\ maxToolIterations = iterations
    /\ systemPrompt = [a \in Agents |-> ConfiguredPrompt(a)]
    /\ tools = [a \in Agents |-> NewAgentTools(subs[a])]
    /\ history = [a \in Agents |-> <<>>]
    /\ hasSystemMessage = [a \in Agents |-> FALSE]
    /\ pc = [a \in Agents |-> "idle"]
    /\ iteration = [a \in Agents |-> 0]
    /\ fullContent = [a \in Agents |-> <<>>]
    /\ toolCalls = [a \in Agents |-> <<>>]
    /\ hasToolCalls = [a \in Agents |-> FALSE]
    /\ completedChunk = [a \in Agents |-> <<>>]
    /\ chunkBytes = [a \in Agents |-> <<>>]
    /\ callIndex = [a \in Agents |-> 0]
    /\ toolResult = [a \in Agents |-> <<>>]
    /\ runErr = [a \in Agents |-> <<>>]
    /\ fullResponse = [a \in Agents |-> <<>>]
    /\ delegationError = [a \in Agents |-> <<>>]
    /\ llmPc = [a \in Agents |-> "done"]
    /\ llmSent = [a \in Agents |-> 0]
    /\ llmResponse = [a \in Agents |-> <<>>]
    /\ llmError = [a \in Agents |-> <<>>]
    /\ llmClosed = [a \in Agents |-> FALSE]
    /\ Response = [a \in Agents |-> <<>>]
    /\ Error = [a \in Agents |-> <<>>]
    /\ closed = [a \in Agents |-> FALSE]
    /\ startPc = [a \in Agents |-> "done"]
    /\ startChunk = [a \in Agents |-> <<>>]
    /\ received = [a \in Agents |-> <<>>]
    /\ runs = [a \in Agents |-> 0]
    /\ toolsAtChatStream = [a \in Agents |-> <<>>]
    /\ produced = [a \in Agents |-> <<>>]
    /\ iterStart = [a \in Agents |-> 0]
    /\ modelCalls = [a \in Agents |-> 0]
    /\ toolRequests = [a \in Agents |-> 0]
    /\ llmEmitted = [a \in Agents |-> <<>>]
    /\ lastMessages = [a \in Agents |-> <<>>]
    /\ toolsSent = [a \in Agents |-> <<>>]
    /\ handlerCalls = [a \in Agents |-> 0]
    /\ delegations = [a \in Agents |-> 0]

\* An agent configured without sub-agents.
SoloAgent ==
    NewAgents([a \in Agents |-> <<>>], [a \in Agents |-> MaxIter],
              [a \in Agents |-> IF a = "main" THEN "response" ELSE "reasoning"],
              [a \in Agents |-> ""])

Init == ProgramStart /\ SoloAgent

\* The main agent configured with sub as its sub-agent, sub with or without a
\* trace label.
InitDelegation ==
    \E traces \in [Agents -> {"response", "reasoning", ""}] :
        /\ ProgramStart
        /\ \A a \in Agents : traces[a] \in Traces(a)
        /\ NewAgents([a \in Agents |-> IF a = "main" THEN <<"sub">> ELSE <<>>],
                     [a \in Agents |-> DelegMaxIter], traces, [a \in Agents |-> ""])

\* An agent without sub-agents that keeps its history in a JSON file.
InitPersistence ==
    /\ ProgramStart
    /\ NewAgents([a \in Agents |-> <<>>], [a \in Agents |-> RepeatMaxIter],
              [a \in Agents |-> IF a = "main" THEN "response" ELSE "reasoning"],
              [a \in Agents |-> "json"])

\* ---------------------------------------------------------------- History
\* UnifiedMessage.MarshalJSON: role and content always, the other fields when
\* they are not empty (omitempty).
MarshalJSON(m) ==
    [f \in {"role", "content"}
            \cup (IF m.toolCallID # <<>> THEN {"toolCallID"} ELSE {})
            \cup (IF m.toolCalls # <<>> THEN {"toolCalls"} ELSE {})
            \cup (IF m.tokens # 0 THEN {"tokens"} ELSE {}) |-> m[f]]

\* UnifiedMessage.UnmarshalJSON: the fields the text has, the zero value for
\* the others.
UnmarshalJSON(j) ==
    Message(j.role, j.content,
            IF "toolCallID" \in DOMAIN j THEN j.toolCallID ELSE <<>>,
            IF "toolCalls" \in DOMAIN j THEN j.toolCalls ELSE <<>>,
            IF "tokens" \in DOMAIN j THEN j.tokens ELSE 0)

\* JSONPersistence.SaveHystory: the whole history written over the file; a
\* failed write is logged and leaves the file as it was.
SaveHystory(file, h, ok) ==
    IF ok THEN <<[i \in 1..Len(h) |-> MarshalJSON(h[i])]>> ELSE file

\* JSONPersistence.GetHystory(0, 0): every message of the file; the empty list
\* when there is no file or the read fails.
GetHystory(file, ok) ==
    IF ok /\ file # <<>> THEN [i \in 1..Len(file[1]) |-> UnmarshalJSON(file[1][i])] ELSE <<>>

\* History.save and History.get: nothing without a persistence layer.
save(a, file, h, ok) == IF persistence[a] # "" THEN SaveHystory(file, h, ok) ELSE file
get(a, file, h, ok) == IF persistence[a] # "" THEN GetHystory(file, ok) ELSE h

\* The outcomes (TRUE: done, FALSE: failed) of n file operations of agent a
\* in a row: no failure without a persistence layer, and no more failures
\* than MaxFaults allows.
Failures(oks) == Cardinality({i \in DOMAIN oks : ~oks[i]})
Outcomes(a, n) ==
    {oks \in [1..n -> BOOLEAN] :
        /\ persistence[a] = "" => Failures(oks) = 0
        /\ faults + Failures(oks) <= MaxFaults}

\* addSystemMessage: prepended once, guarded by hasSystemMessage.
addSystemMessage(h, has, message) == IF ~has THEN <<SystemMessage(message)>> \o h ELSE h

\* ensureSystemPrompt: the main-agent preamble, the default prompt, then
\* addSubAgents' listing, all appended to a.systemPrompt.
addSubAgents(a, prompt) ==
    IF Len(subAgents[a]) = 0 THEN prompt
    ELSE prompt \o <<"=== SUB AGENTS ===">> \o subAgents[a]

ensureSystemPrompt(a, prompt) ==
    LET withPreamble == IF MainAgent(a) THEN prompt \o <<"[SYSTEM] MAIN agent">> ELSE prompt
        withDefault == IF withPreamble = <<>> THEN <<"You are an helpful assistant">>
                       ELSE withPreamble
    IN addSubAgents(a, withDefault)

\* A ChatStream that builds on the main agent's history, whichever agent it is
\* called on.
ChatStreamHistoryShared(a, h, message) ==
    Append(addSystemMessage(history["main"], hasSystemMessage[a],
                            ensureSystemPrompt(a, systemPrompt[a])),
           UserMessage(message))

\* The history ChatStream leaves behind, h being the history it has reloaded:
\* system prompt injection, then the new user message.
ChatStreamHistory(a, h, message) ==
    Append(addSystemMessage(h, hasSystemMessage[a],
                            ensureSystemPrompt(a, systemPrompt[a])),
           UserMessage(message))

\* a.history.save() of the history h, the write done or failed.
HistorySave(a, h) ==
    \E oks \in Outcomes(a, 1) :
        /\ stored' = [stored EXCEPT ![a] = save(a, @, h, oks[1])]
        /\ faults' = faults + Failures(oks)

\* -------------------------------------------------------------- ChatStream
\* Agent.ChatStream(message) on agent c: history and system prompt, the user
\* message, a fresh agent stream, the producer goroutine and (the caller ranging
\* over Start() at once) the Start goroutine.  pcBase, responseBase and
\* producedBase carry what the calling goroutine changes in the same step.
RunStart(c, message, pcBase, responseBase, producedBase) ==
    /\ systemPrompt' = [systemPrompt EXCEPT ![c] = ensureSystemPrompt(c, @)]
    /\ \E oks \in Outcomes(c, 3) :
          LET reloaded == get(c, stored[c], history[c], oks[1])
              injected == addSystemMessage(reloaded, hasSystemMessage[c],
                                           ensureSystemPrompt(c, systemPrompt[c]))
              afterInjection == save(c, stored[c], injected, oks[2])
              withUserMessage == ChatStreamHistory(c, reloaded, message)
          IN /\ history' = [history EXCEPT ![c] = withUserMessage]
             /\ stored' = [stored EXCEPT ![c] =
                               save(c, afterInjection, withUserMessage, oks[3])]
             /\ faults' = faults + Failures(oks)
    /\ hasSystemMessage' = [hasSystemMessage EXCEPT ![c] = TRUE]
    /\ pc' = [pcBase EXCEPT ![c] = "loop"]
    /\ iteration' = [iteration EXCEPT ![c] = 0]
    /\ runErr' = [runErr EXCEPT ![c] = <<>>]
    /\ Response' = [responseBase EXCEPT ![c] = <<>>]
    /\ Error' = [Error EXCEPT ![c] = <<>>]
    /\ closed' = [closed EXCEPT ![c] = FALSE]
    /\ startPc' = [startPc EXCEPT ![c] = "select"]
    /\ startChunk' = [startChunk EXCEPT ![c] = <<>>]
    /\ received' = [received EXCEPT ![c] = <<>>]
    /\ runs' = [runs EXCEPT ![c] = @ + 1]
    /\ toolsAtChatStream' = [toolsAtChatStream EXCEPT ![c] = tools[c]]
    /\ produced' = [producedBase EXCEPT ![c] = <<>>]
    /\ iterStart' = [iterStart EXCEPT ![c] = 0]
    /\ modelCalls' = [modelCalls EXCEPT ![c] = 0]
    /\ toolRequests' = [toolRequests EXCEPT ![c] = 0]
    /\ delegations' = [delegations EXCEPT ![c] = 0]
    /\ handlerCalls' = [handlerCalls EXCEPT ![c] = 0]

\* The previous Run of c is over: its goroutine has returned and its stream
\* has been drained to closure.
RunOver(c) == pc[c] \in {"idle", "done"} /\ startPc[c] = "done"

\* The user calls ChatStream on the main agent and ranges over Start(), as
\* long as fewer than limit calls have been made.
UserChatStreamUpTo(limit) ==
    /\ RunOver("main")
    /\ runs["main"] < limit
    /\ RunStart("main", <<"hello">>, pc, Response, produced)
    /\ UNCHANGED <<programVars, trace, persistence, subAgents, maxToolIterations, tools, fullContent, toolCalls, hasToolCalls,
                   completedChunk, chunkBytes, callIndex, toolResult, delegateVars, llmVars,
                   llmEmitted, lastMessages, toolsSent>>

UserChatStream == UserChatStreamUpTo(MaxRuns)

\* The user calls ChatStream again on the same Agent once the Run is over.
UserChatStreamAgain == UserChatStreamUpTo(RepeatRuns)

\* The owner of the context cancels it.
CtxCancel ==
    /\ ~ctxDone
    /\ ctxDone' = TRUE
    /\ UNCHANGED <<loggerVars, configVars, validationVars, closeVars, trace, persistence, subAgents, maxToolIterations, systemPrompt, tools,
                   history, hasSystemMessage, stored, faults, pc, loopVars, delegateVars,
                   llmVars, streamVars, startVars, ghostVars>>

\* The tool lists a caller hands to SetTools.
ToolLists == {<<>>, <<"foo">>}

\* SetTools: a.tools = tools, whatever the agent is doing.
SetTools(a, newTools) ==
    /\ tools' = [tools EXCEPT ![a] = newTools]
    /\ UNCHANGED <<programVars, trace, persistence, subAgents, maxToolIterations, systemPrompt,
                   history, hasSystemMessage, stored, faults, pc, loopVars, delegateVars,
                   llmVars, streamVars, startVars, ghostVars>>

\* The user replaces the tools of the agent NewAgent built, once.
UserSetTools ==
    \E newTools \in ToolLists :
        /\ tools["main"] = NewAgentTools(subAgents["main"])
        /\ SetTools("main", newTools)

\* ------------------------------------------------------- the LLM engine
\* The tool-call lists the model may request.  The sub agent's model asks for
\* one valid foo call; the main agent's model asks for an unknown tool, a foo
\* call without its required argument and a valid foo call (in one list), or,
\* when it has sub-agents, for a delegation to an existing or to a missing one.
CallId(a, i) == <<a, ToString(runs[a]), ToString(modelCalls[a]), ToString(i)>>

FooCall(id) == ToolCall(id, "foo", {Arg("echo", Str("hi"))})
FooCallNoArg(id) == ToolCall(id, "foo", {})
BogusCall(id) == ToolCall(id, "bogus", {})
DelegateCall(id, sub) ==
    ToolCall(id, "delegate", {Arg("subAgent", Str(sub)), Arg("message", Str("task"))})

CallLists(a) ==
    IF a = "sub"
    THEN {<<FooCall(CallId(a, 1))>>}
    ELSE {<<BogusCall(CallId(a, 1)), FooCallNoArg(CallId(a, 2)), FooCall(CallId(a, 3))>>}
         \cup (IF Len(subAgents[a]) > 0 /\ delegations[a] < MaxDelegations
               THEN {<<DelegateCall(CallId(a, 1), "sub")>>,
                     <<DelegateCall(CallId(a, 1), "nobody")>>}
               ELSE {})

IsDelegation(calls) == \E i \in 1..Len(calls) : calls[i].name = "delegate"

\* streamResponse: a content chunk (select on the send).
LLMContent(a) ==
    /\ llmPc[a] = "stream"
    /\ llmSent[a] < MaxContent
    /\ Len(llmResponse[a]) < ResponseCap
    /\ llmResponse' = [llmResponse EXCEPT ![a] = Append(@, ContentChunk(<<"tok">>))]
    /\ llmSent' = [llmSent EXCEPT ![a] = @ + 1]
    /\ llmEmitted' = [llmEmitted EXCEPT ![a] = Append(@, ContentChunk(<<"tok">>))]
    /\ UNCHANGED <<agentVars, pc, loopVars, delegateVars, llmPc, llmError, llmClosed,
                   streamVars, startVars, runs, toolsAtChatStream, produced, iterStart, modelCalls,
                   toolRequests, lastMessages, toolsSent, handlerCalls, delegations>>

\* streamResponse: stream.Err() is sent on the Error channel, then return.
LLMStreamFails(a) ==
    /\ llmPc[a] = "stream"
    /\ Len(llmError[a]) < ErrorCap
    /\ llmError' = [llmError EXCEPT ![a] = Append(@, OpenAIStreamError)]
    /\ llmPc' = [llmPc EXCEPT ![a] = "return"]
    /\ llmEmitted' = [llmEmitted EXCEPT ![a] = Append(@, LLMErrorChunk(OpenAIStreamError))]
    /\ UNCHANGED <<agentVars, pc, loopVars, delegateVars, llmSent, llmResponse, llmClosed,
                   streamVars, startVars, runs, toolsAtChatStream, produced, iterStart, modelCalls,
                   toolRequests, lastMessages, toolsSent, handlerCalls, delegations>>

\* streamResponse: the tool-call chunk.
LLMToolCalls(a) ==
    /\ llmPc[a] = "stream"
    /\ Len(llmResponse[a]) < ResponseCap
    /\ \E calls \in CallLists(a) :
        /\ llmResponse' = [llmResponse EXCEPT ![a] = Append(@, ToolCallChunk(calls))]
        /\ llmEmitted' = [llmEmitted EXCEPT ![a] = Append(@, ToolCallChunk(calls))]
        /\ delegations' = [delegations EXCEPT ![a] = IF IsDelegation(calls) THEN @ + 1 ELSE @]
    /\ llmPc' = [llmPc EXCEPT ![a] = "final"]
    /\ toolRequests' = [toolRequests EXCEPT ![a] = @ + 1]
    /\ UNCHANGED <<agentVars, pc, loopVars, delegateVars, llmSent, llmError, llmClosed,
                   streamVars, startVars, runs, toolsAtChatStream, produced, iterStart, modelCalls,
                   lastMessages, toolsSent, handlerCalls>>

\* streamResponse: the final completed chunk with the token usage.
LLMCompleted(a) ==
    /\ llmPc[a] \in {"stream", "final"}
    /\ Len(llmResponse[a]) < ResponseCap
    /\ llmResponse' = [llmResponse EXCEPT ![a] = Append(@, CompletedChunk(7))]
    /\ llmEmitted' = [llmEmitted EXCEPT ![a] = Append(@, CompletedChunk(7))]
    /\ llmPc' = [llmPc EXCEPT ![a] = "return"]
    /\ UNCHANGED <<agentVars, pc, loopVars, delegateVars, llmSent, llmError, llmClosed,
                   streamVars, startVars, runs, toolsAtChatStream, produced, iterStart, modelCalls,
                   toolRequests, lastMessages, toolsSent, handlerCalls, delegations>>

\* streamResponse: case <-a.ctx.Done(): return.
LLMCtxDone(a) ==
    /\ ctxDone
    /\ llmPc[a] \in {"stream", "final"}
    /\ llmPc' = [llmPc EXCEPT ![a] = "return"]
    /\ UNCHANGED <<agentVars, pc, loopVars, delegateVars, llmSent, llmResponse, llmError,
                   llmClosed, streamVars, startVars, ghostVars>>

\* streamResponse: defer responseCh.Close() closes Response and Error.
LLMClose(a) ==
    /\ llmPc[a] = "return"
    /\ llmClosed' = [llmClosed EXCEPT ![a] = TRUE]
    /\ llmPc' = [llmPc EXCEPT ![a] = "done"]
    /\ UNCHANGED <<agentVars, pc, loopVars, delegateVars, llmSent, llmResponse, llmError,
                   streamVars, startVars, ghostVars>>

\* ------------------------------------------- executeChatWithTools (producer)
\* A send on the agent stream's Response channel: possible while the buffer
\* has room, and recorded in production order.
CanSend(a) == Len(Response[a]) < ResponseCap

\* Token usage the loop holds: that of the completed chunk, if it saw one.
TokensSeen(a) == IF completedChunk[a] = <<>> THEN 0 ELSE completedChunk[a][1].tokens

\* Leaving the select loop drops the loop's only reference to llmResponseCh: the
\* abandoned sub-stream (whose producer has at most its Close left) is no longer
\* part of the state.
DropLLMStream(a) ==
    /\ llmPc' = [llmPc EXCEPT ![a] = "done"]
    /\ llmSent' = [llmSent EXCEPT ![a] = 0]
    /\ llmResponse' = [llmResponse EXCEPT ![a] = <<>>]
    /\ llmError' = [llmError EXCEPT ![a] = <<>>]
    /\ llmClosed' = [llmClosed EXCEPT ![a] = FALSE]

\* for iteration < a.maxToolIterations { iteration++; history.get(); llmEngine.ChatStream }
\* and, when the loop condition fails, the return of the iteration-cap error.
CallLLM(a) ==
    /\ pc[a] = "loop"
    /\ IF iteration[a] < maxToolIterations[a]
       THEN /\ iteration' = [iteration EXCEPT ![a] = @ + 1]
            /\ \E oks \in Outcomes(a, 1) :
                  /\ history' = [history EXCEPT ![a] = get(a, stored[a], @, oks[1])]
                  /\ faults' = faults + Failures(oks)
            /\ lastMessages' = [lastMessages EXCEPT ![a] = history'[a]]
            /\ toolsSent' = [toolsSent EXCEPT ![a] = tools[a]]
            /\ modelCalls' = [modelCalls EXCEPT ![a] = @ + 1]
            /\ iterStart' = [iterStart EXCEPT ![a] = Len(produced[a])]
            /\ llmPc' = [llmPc EXCEPT ![a] = "stream"]
            /\ llmSent' = [llmSent EXCEPT ![a] = 0]
            /\ llmResponse' = [llmResponse EXCEPT ![a] = <<>>]
            /\ llmError' = [llmError EXCEPT ![a] = <<>>]
            /\ llmClosed' = [llmClosed EXCEPT ![a] = FALSE]
            /\ llmEmitted' = [llmEmitted EXCEPT ![a] = <<>>]
            /\ fullContent' = [fullContent EXCEPT ![a] = <<>>]
            /\ toolCalls' = [toolCalls EXCEPT ![a] = <<>>]
            /\ hasToolCalls' = [hasToolCalls EXCEPT ![a] = FALSE]
            /\ completedChunk' = [completedChunk EXCEPT ![a] = <<>>]
            /\ pc' = [pc EXCEPT ![a] = "select"]
            /\ UNCHANGED runErr
       ELSE /\ runErr' = [runErr EXCEPT ![a] = MaxIterationsError(maxToolIterations[a])]
            /\ pc' = [pc EXCEPT ![a] = "sendError"]
            /\ UNCHANGED <<iteration, lastMessages, toolsSent, modelCalls, iterStart, llmVars, llmEmitted,
                           fullContent, toolCalls, hasToolCalls, completedChunk, history,
                           faults>>
    /\ UNCHANGED <<programVars, trace, persistence, subAgents, maxToolIterations, systemPrompt, tools,
                   hasSystemMessage, stored, chunkBytes, callIndex, toolResult, delegateVars, streamVars,
                   startVars, runs, toolsAtChatStream, produced, toolRequests, handlerCalls, delegations>>

\* select, case chunkBytes, ok := <-llmResponseCh.Response with ok: accumulate
\* the content, note tool calls, hold a completed chunk back, forward the rest.
RecvChunk(a) ==
    /\ pc[a] = "select"
    /\ llmResponse[a] # <<>>
    /\ LET chunk == Head(llmResponse[a]) IN
        /\ fullContent' = [fullContent EXCEPT ![a] = @ \o chunk.content]
        /\ IF chunk.status = StatusToolCall /\ Len(chunk.toolCalls) > 0
           THEN /\ toolCalls' = [toolCalls EXCEPT ![a] = chunk.toolCalls]
                /\ hasToolCalls' = [hasToolCalls EXCEPT ![a] = TRUE]
           ELSE UNCHANGED <<toolCalls, hasToolCalls>>
        /\ IF chunk.status = StatusCompleted
           THEN /\ completedChunk' = [completedChunk EXCEPT ![a] = <<chunk>>]
                /\ pc' = [pc EXCEPT ![a] = "process"]
                /\ DropLLMStream(a)
                /\ UNCHANGED chunkBytes
           ELSE /\ chunkBytes' = [chunkBytes EXCEPT ![a] = <<chunk>>]
                /\ pc' = [pc EXCEPT ![a] = "forward"]
                /\ llmResponse' = [llmResponse EXCEPT ![a] = Tail(@)]
                /\ UNCHANGED <<completedChunk, llmPc, llmSent, llmError, llmClosed>>
    /\ UNCHANGED <<agentVars, iteration, callIndex, toolResult, runErr, delegateVars,
                   streamVars, startVars, ghostVars>>

\* select, case <-llmResponseCh.Response with !ok: goto processToolCalls.
RecvResponseClosed(a) ==
    /\ pc[a] = "select"
    /\ llmResponse[a] = <<>>
    /\ llmClosed[a]
    /\ pc' = [pc EXCEPT ![a] = "process"]
    /\ DropLLMStream(a)
    /\ UNCHANGED <<agentVars, loopVars, delegateVars, streamVars, startVars, ghostVars>>

\* select, case err := <-llmResponseCh.Error with err != nil: return the error.
RecvError(a) ==
    /\ pc[a] = "select"
    /\ llmError[a] # <<>>
    /\ runErr' = [runErr EXCEPT ![a] = LLMStreamError(Head(llmError[a]))]
    /\ pc' = [pc EXCEPT ![a] = "sendError"]
    /\ DropLLMStream(a)
    /\ UNCHANGED <<agentVars, iteration, fullContent, toolCalls, hasToolCalls, completedChunk,
                   chunkBytes, callIndex, toolResult, delegateVars, streamVars, startVars,
                   ghostVars>>

\* select, case err := <-llmResponseCh.Error on the closed channel (nil):
\* goto processToolCalls.
RecvErrorClosed(a) ==
    /\ pc[a] = "select"
    /\ llmError[a] = <<>>
    /\ llmClosed[a]
    /\ pc' = [pc EXCEPT ![a] = "process"]
    /\ DropLLMStream(a)
    /\ UNCHANGED <<agentVars, loopVars, delegateVars, streamVars, startVars, ghostVars>>

\* agentResponseCh.Response <- chunkBytes (forward all other chunks).
Forward(a) ==
    /\ pc[a] = "forward"
    /\ CanSend(a)
    /\ Response' = [Response EXCEPT ![a] = Append(@, chunkBytes[a][1])]
    /\ produced' = [produced EXCEPT ![a] = Append(@, chunkBytes[a][1])]
    /\ pc' = [pc EXCEPT ![a] = "select"]
    /\ UNCHANGED <<agentVars, loopVars, delegateVars, llmVars, Error, closed, startVars,
                   runs, toolsAtChatStream, iterStart, modelCalls, toolRequests, llmEmitted, lastMessages, toolsSent,
                   handlerCalls, delegations>>

\* A processToolCalls that treats a model call that ended without a completed
\* chunk and without tool calls as a failure of the Run.
ProcessToolCallsStrict(a) ==
    /\ pc[a] = "process"
    /\ IF ~hasToolCalls[a]
       THEN /\ IF completedChunk[a] # <<>>
               THEN pc' = [pc EXCEPT ![a] = "sendCompleted"] /\ UNCHANGED runErr
               ELSE /\ pc' = [pc EXCEPT ![a] = "sendError"]
                    /\ runErr' = [runErr EXCEPT ![a] = <<"stream closed without completion">>]
            /\ UNCHANGED <<history, stored, faults, callIndex>>
       ELSE /\ history' = [history EXCEPT ![a] =
                  Append(@, AssistantMessageWithToolCalls(fullContent[a], toolCalls[a], TokensSeen(a)))]
            /\ HistorySave(a, history'[a])
            /\ callIndex' = [callIndex EXCEPT ![a] = 1]
            /\ pc' = [pc EXCEPT ![a] = "execTools"]
            /\ UNCHANGED runErr
    /\ UNCHANGED <<programVars, trace, persistence, subAgents, maxToolIterations, systemPrompt,
                   tools, hasSystemMessage, iteration, fullContent, toolCalls, hasToolCalls,
                   completedChunk, chunkBytes, toolResult, delegateVars, llmVars, streamVars,
                   startVars, ghostVars>>

\* processToolCalls: without tool calls go on to the completed chunk or return
\* nil; with tool calls append the assistant message carrying them.
ProcessToolCalls(a) ==
    /\ pc[a] = "process"
    /\ IF ~hasToolCalls[a]
       THEN /\ pc' = [pc EXCEPT ![a] = IF completedChunk[a] # <<>> THEN "sendCompleted" ELSE "close"]
            /\ UNCHANGED <<history, stored, faults, callIndex>>
       ELSE /\ history' = [history EXCEPT ![a] =
                  Append(@, AssistantMessageWithToolCalls(fullContent[a], toolCalls[a], TokensSeen(a)))]
            /\ HistorySave(a, history'[a])
            /\ callIndex' = [callIndex EXCEPT ![a] = 1]
            /\ pc' = [pc EXCEPT ![a] = "execTools"]
    /\ UNCHANGED <<programVars, trace, persistence, subAgents, maxToolIterations, systemPrompt, tools, hasSystemMessage, iteration, fullContent, toolCalls,
                   hasToolCalls, completedChunk, chunkBytes, toolResult, runErr, delegateVars,
                   llmVars, streamVars, startVars, ghostVars>>

\* agentResponseCh.Response <- completedChunkBytes
SendCompleted(a) ==
    /\ pc[a] = "sendCompleted"
    /\ CanSend(a)
    /\ Response' = [Response EXCEPT ![a] = Append(@, completedChunk[a][1])]
    /\ produced' = [produced EXCEPT ![a] = Append(@, completedChunk[a][1])]
    /\ pc' = [pc EXCEPT ![a] = "saveCompleted"]
    /\ UNCHANGED <<agentVars, loopVars, delegateVars, llmVars, Error, closed, startVars,
                   runs, toolsAtChatStream, iterStart, modelCalls, toolRequests, llmEmitted, lastMessages, toolsSent,
                   handlerCalls, delegations>>

\* a.history.addAssistantMessage(fullContent, tokens); a.history.save(); return nil
SaveCompleted(a) ==
    /\ pc[a] = "saveCompleted"
    /\ history' = [history EXCEPT ![a] = Append(@, AssistantMessage(fullContent[a], TokensSeen(a)))]
    /\ HistorySave(a, history'[a])
    /\ pc' = [pc EXCEPT ![a] = "close"]
    /\ UNCHANGED <<programVars, trace, persistence, subAgents, maxToolIterations, systemPrompt, tools, hasSystemMessage, loopVars, delegateVars, llmVars,
                   streamVars, startVars, ghostVars>>

\* The call the range loop is at.
CurrentCall(a) == toolCalls[a][callIndex[a]]

\* A range loop that calls executeTool without announcing the call.
ExecToolsSilently(a) ==
    /\ pc[a] = "execTools"
    /\ pc' = [pc EXCEPT ![a] = IF callIndex[a] > Len(toolCalls[a]) THEN "loop"
                                ELSE "executeTool"]
    /\ UNCHANGED <<agentVars, loopVars, delegateVars, llmVars, streamVars, startVars,
                   ghostVars>>

\* for _, toolCall := range toolCalls { agentResponseCh.Response <- executingBytes
\* and, once the range is exhausted, back to the loop head.
ExecTools(a) ==
    /\ pc[a] = "execTools"
    /\ IF callIndex[a] > Len(toolCalls[a])
       THEN /\ pc' = [pc EXCEPT ![a] = "loop"]
            /\ UNCHANGED <<Response, produced>>
       ELSE /\ CanSend(a)
            /\ Response' = [Response EXCEPT ![a] = Append(@, ExecutingChunk(CurrentCall(a)))]
            /\ produced' = [produced EXCEPT ![a] = Append(@, ExecutingChunk(CurrentCall(a)))]
            /\ pc' = [pc EXCEPT ![a] = "executeTool"]
    /\ UNCHANGED <<agentVars, loopVars, delegateVars, llmVars, Error, closed, startVars,
                   runs, toolsAtChatStream, iterStart, modelCalls, toolRequests, llmEmitted, lastMessages, toolsSent,
                   handlerCalls, delegations>>

\* The sub-agent a validated delegate call names.
SubAgentName(call) == Lookup(call.args, "subAgent").value

\* executeTool: find the tool by name; tool.Call validates the arguments and
\* only then invokes the handler.  The delegate handler runs on in the steps
\* that follow; every other handler returns within this step.
ExecuteTool(a) ==
    /\ pc[a] = "executeTool"
    /\ LET call == CurrentCall(a)
           v == ValidateAndExtractArgs(call.name, call.args)
       IN IF ~FindTool(tools[a], call.name)
          THEN /\ toolResult' = [toolResult EXCEPT ![a] =
                        <<ToolResult(call.id, call.name, FALSE, <<>>, ToolNotFound(call.name))>>]
               /\ pc' = [pc EXCEPT ![a] = "sendResult"]
               /\ UNCHANGED handlerCalls
          ELSE IF v.failed
          THEN /\ toolResult' = [toolResult EXCEPT ![a] = <<ToToolResult(call, v.ret)>>]
               /\ pc' = [pc EXCEPT ![a] = "sendResult"]
               /\ UNCHANGED handlerCalls
          ELSE IF call.name = "delegate"
          THEN /\ handlerCalls' = [handlerCalls EXCEPT ![a] = @ + 1]
               /\ IF ~FindSubAgent(subAgents[a], SubAgentName(call))
                  THEN /\ toolResult' = [toolResult EXCEPT ![a] =
                              <<ToToolResult(call, NewErrorResponse(SubAgentNotFound(SubAgentName(call))))>>]
                       /\ pc' = [pc EXCEPT ![a] = "sendResult"]
                  ELSE /\ pc' = [pc EXCEPT ![a] = "delegateStart"]
                       /\ UNCHANGED toolResult
          ELSE /\ handlerCalls' = [handlerCalls EXCEPT ![a] = @ + 1]
               /\ toolResult' = [toolResult EXCEPT ![a] =
                        <<ToToolResult(call, HandlerReturn(call.name, v.validated))>>]
               /\ pc' = [pc EXCEPT ![a] = "sendResult"]
    /\ UNCHANGED <<agentVars, iteration, fullContent, toolCalls, hasToolCalls, completedChunk,
                   chunkBytes, callIndex, runErr, delegateVars, llmVars, streamVars, startVars,
                   runs, toolsAtChatStream, produced, iterStart, modelCalls, toolRequests, llmEmitted,
                   lastMessages, toolsSent, delegations>>

\* A send that never blocks: when the buffer is full the oldest event in it is
\* given up to make room.
SendResultOverwriting(a) ==
    /\ pc[a] = "sendResult"
    /\ Response' = [Response EXCEPT ![a] =
            Append(IF Len(@) < ResponseCap THEN @ ELSE Tail(@), ResultChunk(toolResult[a][1]))]
    /\ produced' = [produced EXCEPT ![a] = Append(@, ResultChunk(toolResult[a][1]))]
    /\ pc' = [pc EXCEPT ![a] = "addToolMessage"]
    /\ UNCHANGED <<agentVars, loopVars, delegateVars, llmVars, Error, closed, startVars,
                   runs, toolsAtChatStream, iterStart, modelCalls, toolRequests, llmEmitted, lastMessages, toolsSent,
                   handlerCalls, delegations>>

\* agentResponseCh.Response <- resultBytes
SendResult(a) ==
    /\ pc[a] = "sendResult"
    /\ CanSend(a)
    /\ Response' = [Response EXCEPT ![a] = Append(@, ResultChunk(toolResult[a][1]))]
    /\ produced' = [produced EXCEPT ![a] = Append(@, ResultChunk(toolResult[a][1]))]
    /\ pc' = [pc EXCEPT ![a] = "addToolMessage"]
    /\ UNCHANGED <<agentVars, loopVars, delegateVars, llmVars, Error, closed, startVars,
                   runs, toolsAtChatStream, iterStart, modelCalls, toolRequests, llmEmitted, lastMessages, toolsSent,
                   handlerCalls, delegations>>

\* A loop in which an unsuccessful tool result is returned as the Run's error.
AddToolMessageFatal(a) ==
    /\ pc[a] = "addToolMessage"
    /\ history' = [history EXCEPT ![a] =
            Append(@, ToolMessage(CurrentCall(a).id, toolResult[a][1].result))]
    /\ HistorySave(a, history'[a])
    /\ IF toolResult[a][1].success
       THEN /\ callIndex' = [callIndex EXCEPT ![a] = @ + 1]
            /\ pc' = [pc EXCEPT ![a] = "execTools"]
            /\ UNCHANGED runErr
       ELSE /\ runErr' = [runErr EXCEPT ![a] = toolResult[a][1].error]
            /\ pc' = [pc EXCEPT ![a] = "sendError"]
            /\ UNCHANGED callIndex
    /\ UNCHANGED <<programVars, trace, persistence, subAgents, maxToolIterations, systemPrompt, tools, hasSystemMessage, iteration,
                   fullContent, toolCalls, hasToolCalls, completedChunk, chunkBytes, toolResult,
                   delegateVars, llmVars, streamVars, startVars, ghostVars>>

\* A loop that keeps the tool results back and appends the tool messages of
\* all the calls together, after the last call.
AddToolMessageBatched(a) ==
    /\ pc[a] = "addToolMessage"
    /\ LET sent == SelectSeq(SubSeq(produced[a], iterStart[a] + 1, Len(produced[a])),
                             LAMBDA e : e.status = StatusToolResult /\ e.agentName = "")
           batch == [k \in 1..Len(sent) |->
                        ToolMessage(toolCalls[a][k].id, sent[k].toolResults[1].result)]
       IN history' = [history EXCEPT ![a] =
                         IF callIndex[a] = Len(toolCalls[a]) THEN @ \o batch ELSE @]
    /\ HistorySave(a, history'[a])
    /\ callIndex' = [callIndex EXCEPT ![a] = @ + 1]
    /\ pc' = [pc EXCEPT ![a] = "execTools"]
    /\ UNCHANGED <<programVars, trace, persistence, subAgents, maxToolIterations, systemPrompt, tools,
                   hasSystemMessage, iteration, fullContent, toolCalls, hasToolCalls,
                   completedChunk, chunkBytes, toolResult, runErr, delegateVars, llmVars,
                   streamVars, startVars, ghostVars>>

\* A loop that, having answered a call, passes over the call that follows it.
AddToolMessageSkipping(a) ==
    /\ pc[a] = "addToolMessage"
    /\ history' = [history EXCEPT ![a] =
            Append(@, ToolMessage(CurrentCall(a).id, toolResult[a][1].result))]
    /\ HistorySave(a, history'[a])
    /\ callIndex' = [callIndex EXCEPT ![a] = @ + 2]
    /\ pc' = [pc EXCEPT ![a] = "execTools"]
    /\ UNCHANGED <<programVars, trace, persistence, subAgents, maxToolIterations, systemPrompt,
                   tools, hasSystemMessage, iteration, fullContent, toolCalls, hasToolCalls,
                   completedChunk, chunkBytes, toolResult, runErr, delegateVars, llmVars,
                   streamVars, startVars, ghostVars>>

\* a.history.addToolMessage(toolCall.ID, toolResult.Result); a.history.save()
AddToolMessage(a) ==
    /\ pc[a] = "addToolMessage"
    /\ history' = [history EXCEPT ![a] =
            Append(@, ToolMessage(CurrentCall(a).id, toolResult[a][1].result))]
    /\ HistorySave(a, history'[a])
    /\ callIndex' = [callIndex EXCEPT ![a] = @ + 1]
    /\ pc' = [pc EXCEPT ![a] = "execTools"]
    /\ UNCHANGED <<programVars, trace, persistence, subAgents, maxToolIterations, systemPrompt, tools, hasSystemMessage, iteration, fullContent, toolCalls,
                   hasToolCalls, completedChunk, chunkBytes, toolResult, runErr, delegateVars,
                   llmVars, streamVars, startVars, ghostVars>>

\* ChatStream's goroutine: agentResponseCh.Error <- err
SendError(a) ==
    /\ pc[a] = "sendError"
    /\ Len(Error[a]) < ErrorCap
    /\ Error' = [Error EXCEPT ![a] = Append(@, runErr[a])]
    /\ produced' = [produced EXCEPT ![a] = Append(@, ErrorChunk(runErr[a], a))]
    /\ pc' = [pc EXCEPT ![a] = "close"]
    /\ UNCHANGED <<agentVars, loopVars, delegateVars, llmVars, Response, closed, startVars,
                   runs, toolsAtChatStream, iterStart, modelCalls, toolRequests, llmEmitted, lastMessages, toolsSent,
                   handlerCalls, delegations>>

\* A Close that does not wait for the goroutine's last send: the stream is
\* closed while the error of the Run is still to be put on the Error channel.
CloseBeforeError(a) ==
    /\ pc[a] = "close" \/ (pc[a] = "sendError" /\ ~closed[a])
    /\ closed' = [closed EXCEPT ![a] = TRUE]
    /\ pc' = [pc EXCEPT ![a] = IF @ = "close" THEN "done" ELSE @]
    /\ UNCHANGED <<agentVars, loopVars, delegateVars, llmVars, Response, Error, startVars,
                   ghostVars>>

\* ChatStream's goroutine: defer agentResponseCh.Close()
Close(a) ==
    /\ pc[a] = "close"
    /\ closed' = [closed EXCEPT ![a] = TRUE]
    /\ pc' = [pc EXCEPT ![a] = "done"]
    /\ UNCHANGED <<agentVars, loopVars, delegateVars, llmVars, Response, Error, startVars,
                   ghostVars>>

\* ------------------------------------------------ the delegate tool's handler
DelegationStartMarker(sub) == ContentChunk(<<"[Delegating to ", sub, "...]">>)
DelegationCompleteMarker(sub) == ContentChunk(<<"[Delegation to ", sub, " complete]">>)

\* The start marker, then assignedSubAgent.ChatStream(message) and Start().
\* (The child's previous goroutine, if any, has at most its Close of the old
\* stream left; the step waits for it, which changes nothing the new Run sees.)
DelegateStart(p) ==
    /\ pc[p] = "delegateStart"
    /\ CanSend(p)
    /\ LET c == SubAgentName(CurrentCall(p))
           marker == DelegationStartMarker(c)
       IN /\ RunOver(c)
          /\ RunStart(c, <<Lookup(CurrentCall(p).args, "message").value>>,
                      [pc EXCEPT ![p] = "delegateRecv"],
                      [Response EXCEPT ![p] = Append(@, marker)],
                      [produced EXCEPT ![p] = Append(@, marker)])
    /\ fullResponse' = [fullResponse EXCEPT ![p] = <<>>]
    /\ delegationError' = [delegationError EXCEPT ![p] = <<>>]
    /\ UNCHANGED <<programVars, trace, persistence, subAgents, maxToolIterations, tools, fullContent, toolCalls, hasToolCalls,
                   completedChunk, chunkBytes, callIndex, toolResult, llmVars, llmEmitted,
                   lastMessages, toolsSent>>

\* A Start goroutine that goes back to its select after the error chunk too.
DeliveredAndContinues(c) ==
    /\ received' = [received EXCEPT ![c] = Append(@, startChunk[c][1])]
    /\ startPc' = [startPc EXCEPT ![c] = "select"]
    /\ UNCHANGED startChunk

\* The Start goroutine hands the chunk it holds to the reader of chunkChan (an
\* unbuffered channel: send and receive are one step); after an error chunk it
\* returns, closing chunkChan.
Delivered(c) ==
    /\ received' = [received EXCEPT ![c] = Append(@, startChunk[c][1])]
    /\ startPc' = [startPc EXCEPT ![c] = IF @ = "sendError" THEN "done" ELSE "select"]
    /\ UNCHANGED startChunk

\* chunk, ok := chValue.Recv() with ok: accumulate Content, record an error
\* status, and go on to forward the chunk.
DelegateRecv(p) ==
    /\ pc[p] = "delegateRecv"
    /\ LET c == SubAgentName(CurrentCall(p)) IN
        /\ startPc[c] \in {"send", "sendError"}
        /\ Delivered(c)
        /\ LET chunk == startChunk[c][1] IN
            /\ fullResponse' = [fullResponse EXCEPT ![p] = @ \o chunk.content]
            /\ delegationError' = [delegationError EXCEPT ![p] =
                    IF chunk.status = StatusError THEN DelegationErrorText(chunk.content) ELSE @]
            /\ chunkBytes' = [chunkBytes EXCEPT ![p] = <<chunk>>]
    /\ pc' = [pc EXCEPT ![p] = "delegateForward"]
    /\ UNCHANGED <<agentVars, iteration, fullContent, toolCalls, hasToolCalls, completedChunk,
                   callIndex, toolResult, runErr, llmVars, streamVars, ghostVars>>

\* chunk, ok := chValue.Recv() with !ok: the child's chunkChan is closed.
DelegateRecvClosed(p) ==
    /\ pc[p] = "delegateRecv"
    /\ startPc[SubAgentName(CurrentCall(p))] = "done"
    /\ pc' = [pc EXCEPT ![p] = "delegateEnd"]
    /\ UNCHANGED <<agentVars, loopVars, delegateVars, llmVars, streamVars, startVars, ghostVars>>

\* parentResponseCh.GetResponseChan() <- chunkBytes (the child's chunk, re-encoded
\* with its agentName and trace).
DelegateForward(p) ==
    /\ pc[p] = "delegateForward"
    /\ CanSend(p)
    /\ Response' = [Response EXCEPT ![p] = Append(@, chunkBytes[p][1])]
    /\ produced' = [produced EXCEPT ![p] = Append(@, chunkBytes[p][1])]
    /\ pc' = [pc EXCEPT ![p] = "delegateRecv"]
    /\ UNCHANGED <<agentVars, loopVars, delegateVars, llmVars, Error, closed, startVars,
                   runs, toolsAtChatStream, iterStart, modelCalls, toolRequests, llmEmitted, lastMessages, toolsSent,
                   handlerCalls, delegations>>

\* A handler that sends the completion marker only when no error was recorded.
DelegateEndQuietOnError(p) ==
    /\ pc[p] = "delegateEnd"
    /\ CanSend(p)
    /\ LET marker == DelegationCompleteMarker(SubAgentName(CurrentCall(p)))
           ret == IF delegationError[p] # <<>>
                  THEN NewFailureResponse(delegationError[p], fullResponse[p])
                  ELSE NewSuccessResponse(fullResponse[p])
       IN /\ Response' = [Response EXCEPT ![p] = IF ret.success THEN Append(@, marker) ELSE @]
          /\ produced' = [produced EXCEPT ![p] = IF ret.success THEN Append(@, marker) ELSE @]
          /\ toolResult' = [toolResult EXCEPT ![p] = <<ToToolResult(CurrentCall(p), ret)>>]
    /\ pc' = [pc EXCEPT ![p] = "sendResult"]
    /\ UNCHANGED <<agentVars, iteration, fullContent, toolCalls, hasToolCalls, completedChunk,
                   chunkBytes, callIndex, runErr, delegateVars, llmVars, Error, closed,
                   startVars, runs, toolsAtChatStream, iterStart, modelCalls, toolRequests, llmEmitted,
                   lastMessages, toolsSent, handlerCalls, delegations>>

\* The completion marker, then the handler's return: a failure response with the
\* accumulated text if an error was recorded, a success response otherwise.
DelegateEnd(p) ==
    /\ pc[p] = "delegateEnd"
    /\ CanSend(p)
    /\ LET marker == DelegationCompleteMarker(SubAgentName(CurrentCall(p)))
           ret == IF delegationError[p] # <<>>
                  THEN NewFailureResponse(delegationError[p], fullResponse[p])
                  ELSE NewSuccessResponse(fullResponse[p])
       IN /\ Response' = [Response EXCEPT ![p] = Append(@, marker)]
          /\ produced' = [produced EXCEPT ![p] = Append(@, marker)]
          /\ toolResult' = [toolResult EXCEPT ![p] = <<ToToolResult(CurrentCall(p), ret)>>]
    /\ pc' = [pc EXCEPT ![p] = "sendResult"]
    /\ UNCHANGED <<agentVars, iteration, fullContent, toolCalls, hasToolCalls, completedChunk,
                   chunkBytes, callIndex, runErr, delegateVars, llmVars, Error, closed,
                   startVars, runs, toolsAtChatStream, iterStart, modelCalls, toolRequests, llmEmitted,
                   lastMessages, toolsSent, handlerCalls, delegations>>

\* ------------------------------------------------------- responseCh.Start()
\* json.Unmarshal into extendedChunkResponse, then AgentName and Trace are set
\* only if they are not already set.
Decode(chunk, a) ==
    [chunk EXCEPT !.agentName = IF @ = "" THEN a ELSE @,
                  !.trace = IF @ = "" THEN TraceOf(a) ELSE @]

\* A Start goroutine that takes the newest buffered chunk instead of the oldest.
StartRecvNewest(a) ==
    /\ startPc[a] = "select"
    /\ Response[a] # <<>>
    /\ startChunk' = [startChunk EXCEPT ![a] = <<Decode(Response[a][Len(Response[a])], a)>>]
    /\ Response' = [Response EXCEPT ![a] = SubSeq(@, 1, Len(@) - 1)]
    /\ startPc' = [startPc EXCEPT ![a] = "send"]
    /\ UNCHANGED <<agentVars, pc, loopVars, delegateVars, llmVars, Error, closed, received,
                   ghostVars>>

\* select, case chunkBytes, ok := <-arc.Response with ok.
StartRecv(a) ==
    /\ startPc[a] = "select"
    /\ Response[a] # <<>>
    /\ startChunk' = [startChunk EXCEPT ![a] = <<Decode(Head(Response[a]), a)>>]
    /\ Response' = [Response EXCEPT ![a] = Tail(@)]
    /\ startPc' = [startPc EXCEPT ![a] = "send"]
    /\ UNCHANGED <<agentVars, pc, loopVars, delegateVars, llmVars, Error, closed, received,
                   ghostVars>>

\* select, case <-arc.Response with !ok: return (chunkChan is closed).
StartResponseClosed(a) ==
    /\ startPc[a] = "select"
    /\ Response[a] = <<>>
    /\ closed[a]
    /\ startPc' = [startPc EXCEPT ![a] = "done"]
    /\ UNCHANGED <<agentVars, pc, loopVars, delegateVars, llmVars, streamVars, startChunk,
                   received, ghostVars>>

\* select, case err := <-arc.Error with err != nil: the error chunk, then return.
StartRecvError(a) ==
    /\ startPc[a] = "select"
    /\ Error[a] # <<>>
    /\ startChunk' = [startChunk EXCEPT ![a] = <<ErrorChunk(Head(Error[a]), a)>>]
    /\ Error' = [Error EXCEPT ![a] = Tail(@)]
    /\ startPc' = [startPc EXCEPT ![a] = "sendError"]
    /\ UNCHANGED <<agentVars, pc, loopVars, delegateVars, llmVars, Response, closed, received,
                   ghostVars>>

\* select, case err := <-arc.Error on the closed channel (nil): return.
StartErrorClosed(a) ==
    /\ startPc[a] = "select"
    /\ Error[a] = <<>>
    /\ closed[a]
    /\ startPc' = [startPc EXCEPT ![a] = "done"]
    /\ UNCHANGED <<agentVars, pc, loopVars, delegateVars, llmVars, streamVars, startChunk,
                   received, ghostVars>>

\* The user's loop: for chunk := range responseCh.Start() on the main agent.
ConsumerRecv ==
    /\ startPc["main"] \in {"send", "sendError"}
    /\ Delivered("main")
    /\ UNCHANGED <<agentVars, pc, loopVars, delegateVars, llmVars, streamVars, ghostVars>>

\* ------------------------------------------------------------ specification
Producer(a) ==
    \/ CallLLM(a) \/ RecvChunk(a) \/ RecvResponseClosed(a) \/ RecvError(a)
    \/ RecvErrorClosed(a) \/ Forward(a) \/ ProcessToolCalls(a) \/ SendCompleted(a)
    \/ SaveCompleted(a) \/ ExecTools(a) \/ ExecuteTool(a) \/ SendResult(a)
    \/ AddToolMessage(a) \/ SendError(a) \/ Close(a)

Delegate(p) ==
    \/ DelegateStart(p) \/ DelegateRecv(p) \/ DelegateRecvClosed(p)
    \/ DelegateForward(p) \/ DelegateEnd(p)

LLM(a) ==
    \/ LLMContent(a) \/ LLMStreamFails(a) \/ LLMToolCalls(a) \/ LLMCompleted(a)
    \/ LLMCtxDone(a) \/ LLMClose(a)

StartGoroutine(a) ==
    \/ StartRecv(a) \/ StartResponseClosed(a) \/ StartRecvError(a) \/ StartErrorClosed(a)

\* One agent without sub-agents, its LLM engine and the user.
Next ==
    \/ UserChatStream
    \/ CtxCancel
    \/ ConsumerRecv
    \/ Producer("main") \/ LLM("main") \/ StartGoroutine("main")

Spec == Init /\ [][Next]_vars

\* The main agent with its sub-agent: the delegate tool's handler as well.
NextDelegation ==
    \/ Next
    \/ Delegate("main")
    \/ Producer("sub") \/ LLM("sub") \/ StartGoroutine("sub")

DelegationSpec == InitDelegation /\ [][NextDelegation]_vars

\* The main agent with its reasoning sub-agent, and a user who also replaces
\* the main agent's tools at any moment.
InitSetTools ==
    /\ ProgramStart
    /\ NewAgents([a \in Agents |-> IF a = "main" THEN <<"sub">> ELSE <<>>],
                 [a \in Agents |-> DelegMaxIter],
                 [a \in Agents |-> IF a = "main" THEN "response" ELSE "reasoning"],
                 [a \in Agents |-> ""])

NextSetTools ==
    \/ NextDelegation
    \/ UserSetTools

SetToolsSpec == InitSetTools /\ [][NextSetTools]_vars

\* One agent that persists its history, called repeatedly.
NextPersistence ==
    \/ UserChatStreamAgain
    \/ CtxCancel
    \/ ConsumerRecv
    \/ Producer("main") \/ LLM("main") \/ StartGoroutine("main")

PersistenceSpec == InitPersistence /\ [][NextPersistence]_vars

\* The agent of Spec with its goroutines scheduled fairly: the producer, the
\* LLM engine's streamResponse and Start() each take a step they are able to
\* take.  The consumer of Start()'s channel is free to stop receiving.
CancellationSpec ==
    /\ Init
    /\ [][Next]_vars
    /\ WF_vars(Producer("main"))
    /\ WF_vars(LLM("main"))
    /\ WF_vars(StartGoroutine("main"))

\* ------------------------------------------------------------------ logger
\* GetLogger, if defaultLogger == nil: the read of the package variable.
GetLoggerCheck(g) ==
    /\ logPc[g] = "idle"
    /\ logCalls[g] < MaxLoggerCalls
    /\ logCalls' = [logCalls EXCEPT ![g] = @ + 1]
    /\ logPc' = [logPc EXCEPT ![g] = IF defaultLogger = 0 THEN "create" ELSE "return"]
    /\ UNCHANGED <<defaultLogger, loggerOnce, loggers, obtained, ctxDone, configVars, validationVars, closeVars, agentState>>

\* GetLogger, defaultLogger = NewLogger(InfoLevel, os.Stdout).
GetLoggerCreate(g) ==
    /\ logPc[g] = "create"
    /\ loggers' = loggers + 1
    /\ defaultLogger' = loggers + 1
    /\ logPc' = [logPc EXCEPT ![g] = "return"]
    /\ UNCHANGED <<loggerOnce, logCalls, obtained, ctxDone, configVars, validationVars, closeVars, agentState>>

\* GetLogger, return defaultLogger.
GetLoggerReturn(g) ==
    /\ logPc[g] = "return"
    /\ obtained' = [obtained EXCEPT ![g] = @ \cup {defaultLogger}]
    /\ logPc' = [logPc EXCEPT ![g] = "idle"]
    /\ UNCHANGED <<defaultLogger, loggerOnce, loggers, logCalls, ctxDone, configVars, validationVars, closeVars, agentState>>

\* InitLogger, loggerOnce.Do: the first caller runs f, a caller that arrives
\* while f runs waits for it, a later caller returns at once.
InitLoggerDo(g) ==
    /\ logPc[g] \in {"idle", "wait"}
    /\ logPc[g] = "idle" => logCalls[g] < MaxLoggerCalls
    /\ logCalls' = [logCalls EXCEPT ![g] = IF logPc[g] = "idle" THEN @ + 1 ELSE @]
    /\ \/ /\ loggerOnce = "fresh"
          /\ loggerOnce' = "running"
          /\ logPc' = [logPc EXCEPT ![g] = "init"]
       \/ /\ loggerOnce = "running"
          /\ logPc[g] = "idle"
          /\ logPc' = [logPc EXCEPT ![g] = "wait"]
          /\ UNCHANGED loggerOnce
       \/ /\ loggerOnce = "done"
          /\ logPc' = [logPc EXCEPT ![g] = "idle"]
          /\ UNCHANGED loggerOnce
    /\ UNCHANGED <<defaultLogger, loggers, obtained, ctxDone, configVars, validationVars, closeVars, agentState>>

\* InitLogger, f: defaultLogger = NewLoggerFromConfig(config), and Do is done.
InitLoggerBody(g) ==
    /\ logPc[g] = "init"
    /\ loggers' = loggers + 1
    /\ defaultLogger' = loggers + 1
    /\ loggerOnce' = "done"
    /\ logPc' = [logPc EXCEPT ![g] = "idle"]
    /\ UNCHANGED <<logCalls, obtained, ctxDone, configVars, validationVars, closeVars, agentState>>

\* A goroutine inside GetLogger or InitLogger takes its next step.
LoggerCall(g) ==
    \/ GetLoggerCheck(g)
    \/ GetLoggerCreate(g)
    \/ GetLoggerReturn(g)
    \/ InitLoggerDo(g)
    \/ InitLoggerBody(g)

NextLogger == \E g \in Goroutines : LoggerCall(g)

\* Goroutines that call GetLogger and InitLogger in any order.
LoggerSpec == Init /\ [][NextLogger]_vars

\* ----------------------------------------------------------- configuration
\* The values a line of a .env file or an environment variable may hold.
Values == {"", "DEBUG", "ERROR"}

\* The contents a .env file may have: key=value lines, as loadEnvFile splits
\* them.
EnvLines == UNION {[1..n -> Keys \X Values] : n \in 0..MaxLines}

\* The .env files of the directories from the working directory to the root.
EnvFileChains ==
    UNION {[1..n -> {NoEnvFile} \cup {EnvFile(lines) : lines \in EnvLines}] : n \in 1..MaxDirs}

\* loadEnvFile: env[key] = value for every line, a later line replacing an
\* earlier one.
Defines(lines, key) == \E i \in 1..Len(lines) : lines[i][1] = key
ValueOf(lines, key) ==
    lines[CHOOSE i \in 1..Len(lines) :
            /\ lines[i][1] = key
            /\ \A j \in (i + 1)..Len(lines) : lines[j][1] # key][2]

\* GetEnvVar's loop over the directories: the first .env file that can be
\* read and holds a non-empty value for key.
RECURSIVE SearchEnvFiles(_, _, _)
SearchEnvFiles(files, key, i) ==
    IF i > SearchLevels \/ i > Len(files)
    THEN [found |-> FALSE, value |-> ""]
    ELSE IF /\ files[i].exists
            /\ Defines(files[i].lines, key)
            /\ ValueOf(files[i].lines, key) # ""
         THEN [found |-> TRUE, value |-> ValueOf(files[i].lines, key)]
         ELSE SearchEnvFiles(files, key, i + 1)

\* GetEnvVar: the .env files first, then os.Getenv, then an error.
GetEnvVar(files, env, key) ==
    LET inFile == SearchEnvFiles(files, key, 1)
    IN IF inFile.found THEN [value |-> inFile.value, err |-> FALSE]
       ELSE IF env[key] # "" THEN [value |-> env[key], err |-> FALSE]
       ELSE [value |-> "", err |-> TRUE]

\* getEnv: the default value when GetEnvVar fails.
getEnv(files, env, key, defaultValue) ==
    LET found == GetEnvVar(files, env, key)
    IN IF found.err THEN defaultValue ELSE found.value

\* NewConfig: every field from getEnv with its default.  (godotenv.Load only
\* copies values of the working directory's .env into unset environment
\* variables, which GetEnvVar would have taken from that file anyway.)
NewConfig ==
    /\ \A k \in Keys : config[k] = <<>>
    /\ config' = [k \in Keys |-> <<getEnv(envFiles, environ, k, Default(k))>>]
    /\ UNCHANGED <<envFiles, environ, ctxDone, loggerVars, validationVars, closeVars, agentState>>

\* A process started with any .env files and any environment.
InitConfig ==
    /\ ctxDone = FALSE
    /\ LoggerStart
    /\ SoloAgent
    /\ ValidationStart(<<>>, {})
    /\ StreamStart
    /\ \E files \in EnvFileChains, env \in [Keys -> Values] : ConfigStart(files, env)

NextConfig == NewConfig

ConfigSpec == InitConfig /\ [][NextConfig]_vars

\* -------------------------------------------------------------- validation
\* The parameters a tool may declare and the argument maps of a call.
Declarations ==
    {Param(n, t, req, validator) : n \in {"x", "y"}, t \in {"string", "number"},
                                   req \in BOOLEAN, validator \in {"", "nonEmpty"}}
ParameterLists == UNION {[1..n -> Declarations] : n \in 0..MaxParams}
ArgumentMaps ==
    {args \in SUBSET {Arg(n, v) : n \in {"x", "y"}, v \in {Str(""), Str("a"), Num("1")}} :
        \A e1 \in args : \A e2 \in args : e1.name = e2.name => e1 = e2}

\* tool.Call, as far as the validation of the arguments.
CallValidate ==
    /\ valOutcome = <<>>
    /\ valOutcome' = <<ValidateFrom(valParams, 1, valArgs, {}, <<>>)>>
    /\ UNCHANGED <<valParams, valArgs, ctxDone, loggerVars, configVars, closeVars, agentState>>

\* Any tool called with any argument map.
InitValidation ==
    /\ ctxDone = FALSE
    /\ LoggerStart
    /\ ConfigStart(<<NoEnvFile>>, [k \in Keys |-> ""])
    /\ StreamStart
    /\ SoloAgent
    /\ \E params \in ParameterLists, args \in ArgumentMaps : ValidationStart(params, args)

NextValidation == CallValidate

ValidationSpec == InitValidation /\ [][NextValidation]_vars

\* ------------------------------------------------------------------- Close
\* What every step inside Close leaves alone.
outsideClose == <<ctxDone, loggerVars, configVars, validationVars, agentState>>

\* A goroutine calls Close.
CloseEnter(g) ==
    /\ ~rcPanicked
    /\ closePc[g] = "idle"
    /\ closeCalls[g] < MaxCloseCalls
    /\ closeCalls' = [closeCalls EXCEPT ![g] = @ + 1]
    /\ closePc' = [closePc EXCEPT ![g] = "lock"]
    /\ UNCHANGED <<rcMu, rcClosed, rcResponseCloses, rcErrorCloses, rcPanicked, outsideClose>>

\* rc.mu.Lock()
CloseLock(g) ==
    /\ ~rcPanicked
    /\ closePc[g] = "lock"
    /\ rcMu = ""
    /\ rcMu' = g
    /\ closePc' = [closePc EXCEPT ![g] = "check"]
    /\ UNCHANGED <<rcClosed, rcResponseCloses, rcErrorCloses, rcPanicked, closeCalls,
                   outsideClose>>

\* A Close that does not look at rc.closed.
CloseCheckNothing(g) ==
    /\ ~rcPanicked
    /\ closePc[g] = "check"
    /\ closePc' = [closePc EXCEPT ![g] = "closeResponse"]
    /\ UNCHANGED <<rcMu, rcClosed, rcResponseCloses, rcErrorCloses, rcPanicked, closeCalls,
                   outsideClose>>

\* if rc.closed { return }
CloseCheck(g) ==
    /\ ~rcPanicked
    /\ closePc[g] = "check"
    /\ closePc' = [closePc EXCEPT ![g] = IF rcClosed THEN "unlock" ELSE "closeResponse"]
    /\ UNCHANGED <<rcMu, rcClosed, rcResponseCloses, rcErrorCloses, rcPanicked, closeCalls,
                   outsideClose>>

\* close(rc.Response): closing a closed channel panics.
CloseResponse(g) ==
    /\ ~rcPanicked
    /\ closePc[g] = "closeResponse"
    /\ rcResponseCloses' = rcResponseCloses + 1
    /\ rcPanicked' = (rcResponseCloses >= 1)
    /\ closePc' = [closePc EXCEPT ![g] = "closeError"]
    /\ UNCHANGED <<rcMu, rcClosed, rcErrorCloses, closeCalls, outsideClose>>

\* close(rc.Error); rc.closed = true
CloseError(g) ==
    /\ ~rcPanicked
    /\ closePc[g] = "closeError"
    /\ rcErrorCloses' = rcErrorCloses + 1
    /\ rcPanicked' = (rcErrorCloses >= 1)
    /\ rcClosed' = TRUE
    /\ closePc' = [closePc EXCEPT ![g] = "unlock"]
    /\ UNCHANGED <<rcMu, rcResponseCloses, closeCalls, outsideClose>>

\* defer rc.mu.Unlock()
CloseUnlock(g) ==
    /\ ~rcPanicked
    /\ closePc[g] = "unlock"
    /\ rcMu' = ""
    /\ closePc' = [closePc EXCEPT ![g] = "idle"]
    /\ UNCHANGED <<rcClosed, rcResponseCloses, rcErrorCloses, rcPanicked, closeCalls,
                   outsideClose>>

CloseCall(g) ==
    \/ CloseEnter(g) \/ CloseLock(g) \/ CloseCheck(g) \/ CloseResponse(g) \/ CloseError(g) \/ CloseUnlock(g)

NextClose == \E g \in Closers : CloseCall(g)

\* Goroutines that call Close on one stream, each any number of times.
CloseSpec == Init /\ [][NextClose]_vars


\* -------------------------------------------------------------- properties
Last(s) == s[Len(s)]

\* A terminal event, and an event an agent's own engine originated: on the
\* producer's side its agentName is still "", once decoded by Start it is a's.
Terminal(e) == e.status \in {StatusCompleted, StatusError}
OwnEvent(e, a) == e.agentName \in {"", a}

\* The error event Start builds from the Run's error channel.
OwnError(e, a) == e.status = StatusError /\ e.agentName = a

\* The consumer of a's stream has read it to closure.
StreamClosed(a) == runs[a] > 0 /\ startPc[a] = "done"

\* What the producer sent on the Response channel, in order.
SentOnResponse(a) ==
    LET Test(e) == ~OwnError(e, a) IN SelectSeq(produced[a], Test)

\* The producer's events since the latest model call, and those of one status
\* among them that the agent's own engine originated.
IterationEvents(a) == SubSeq(produced[a], iterStart[a] + 1, Len(produced[a]))
OwnOfStatus(s, status) ==
    LET Test(e) == e.status = status /\ e.agentName = "" IN SelectSeq(s, Test)

\* The tool calls the LLM engine listed in the latest model call (<<>>: none).
RequestedCalls(a) ==
    IF \E i \in 1..Len(llmEmitted[a]) : llmEmitted[a][i].status = StatusToolCall
    THEN llmEmitted[a][CHOOSE i \in 1..Len(llmEmitted[a]) :
                           llmEmitted[a][i].status = StatusToolCall].toolCalls
    ELSE <<>>

EmittedOfStatus(a, status) ==
    \E i \in 1..Len(llmEmitted[a]) : llmEmitted[a][i].status = status

\* The concatenated content of a sequence of chunks.
RECURSIVE ContentOf(_)
ContentOf(s) == IF s = <<>> THEN <<>> ELSE Head(s).content \o ContentOf(Tail(s))

\* The latest model call of the current Run has been dealt with.
IterationOver(a) == modelCalls[a] > 0 /\ pc[a] \in {"loop", "sendError", "close", "done"}
RunEnded(a) == modelCalls[a] > 0 /\ pc[a] \in {"sendError", "close", "done"}

\* The names in a's tool set, and a call whose arguments pass validation, both
\* stated from the tools' declarations.
ToolNames(a) == {tools[a][i] : i \in 1..Len(tools[a])}
ParamOk(param, args) ==
    IF Exists(args, param.Name) THEN Lookup(args, param.Name).type = param.Type
    ELSE ~param.Required
ArgsOk(tool, args) ==
    \A i \in 1..Len(Parameters(tool)) : ParamOk(Parameters(tool)[i], args)

\* The calls of the current Run whose executeTool has returned or, for a
\* delegation, has entered the handler.
ExecutedCalls(a) ==
    LET ex == OwnOfStatus(produced[a], StatusToolExecuting)
        n == IF pc[a] = "executeTool" THEN Len(ex) - 1 ELSE Len(ex)
    IN [i \in 1..n |-> ex[i].toolExecuting]

\* text occurs in content.
Conveys(content, text) ==
    /\ text # <<>>
    /\ \E k \in 1..Len(content) :
          k + Len(text) - 1 <= Len(content) /\ SubSeq(content, k, k + Len(text) - 1) = text

C2_DeliveredInProductionOrder ==
    \A a \in Agents :
        LET r == received[a]
            hasErr == r # <<>> /\ OwnError(Last(r), a)
            body == IF hasErr THEN SubSeq(r, 1, Len(r) - 1) ELSE r
            sent == SentOnResponse(a)
        IN /\ Len(body) <= Len(sent)
           /\ \A i \in 1..Len(body) :
                 body[i] = [sent[i] EXCEPT !.agentName = IF @ = "" THEN a ELSE @,
                                           !.trace = IF @ = "" THEN TraceOf(a) ELSE @]
           /\ hasErr => /\ produced[a] # <<>>
                        /\ Last(r) = Last(produced[a])
                        /\ Last(r).content = runErr[a]

\* C2, reached: the consumer of the main agent's stream has received own
\* events, events relayed from the sub agent and, last, the Run's error.
C2_Witness ==
    /\ Len(received["main"]) >= 4
    /\ OwnError(Last(received["main"]), "main")
    /\ \E i \in 1..Len(received["main"]) : received["main"][i].agentName = "sub"
    /\ \E i \in 1..Len(received["main"]) :
          received["main"][i].status = StatusToolResult

\* C3 as stated: once a model call in which the LLM engine emitted a tool-call
\* chunk listing N calls has been dealt with, the engine has produced exactly N
\* tool-executing and N tool-result events for it, the i-th of each carrying the
\* id of the i-th listed call.
C3_ToolEventsMatchRequestedCalls ==
    \A a \in Agents :
        (IterationOver(a) /\ RequestedCalls(a) # <<>>) =>
            LET calls == RequestedCalls(a)
                executing == OwnOfStatus(IterationEvents(a), StatusToolExecuting)
                results == OwnOfStatus(IterationEvents(a), StatusToolResult)
            IN /\ Len(executing) = Len(calls)
               /\ Len(results) = Len(calls)
               /\ \A i \in 1..Len(calls) :
                     /\ executing[i].toolExecuting.id = calls[i].id
                     /\ results[i].toolResults[1].toolCallID = calls[i].id

\* C4 as stated: a Run makes at most maxToolIterations model calls, and a Run
\* that is over, every model call of which requested tool calls, has made
\* exactly maxToolIterations of them and ended with the iteration-cap error.
C4_IterationBound ==
    \A a \in Agents :
        /\ modelCalls[a] <= maxToolIterations[a]
        /\ (pc[a] = "done" /\ modelCalls[a] > 0 /\ toolRequests[a] = modelCalls[a]) =>
              /\ modelCalls[a] = maxToolIterations[a]
              /\ runErr[a] = MaxIterationsError(maxToolIterations[a])

\* C5 as stated: when the LLM engine reported a failure on its error channel,
\* the stream the consumer has read to closure ends with an error event that
\* describes the failure.
C5_TransportFailureEndsInErrorEvent ==
    \A a \in Agents :
        (StreamClosed(a) /\ pc[a] = "done" /\ EmittedOfStatus(a, StatusError)) =>
            /\ received[a] # <<>>
            /\ Last(received[a]).status = StatusError
            /\ Last(received[a]).content = LLMStreamError(OpenAIStreamError)

\* C6 as stated: a Run whose latest model call ended with a completed chunk and
\* no tool-call chunk is over with exactly one assistant message appended to the
\* history that call was given (the call's content, the chunk's token usage),
\* with the completed event sent last on the stream, and without an error.
C6_CompletedWithoutToolCalls ==
    \A a \in Agents :
        (pc[a] = "done" /\ modelCalls[a] > 0 /\ EmittedOfStatus(a, StatusCompleted)
         /\ RequestedCalls(a) = <<>>) =>
            /\ history[a] = Append(lastMessages[a],
                    AssistantMessage(ContentOf(llmEmitted[a]), Last(llmEmitted[a]).tokens))
            /\ produced[a] # <<>>
            /\ Last(produced[a]) = Last(llmEmitted[a])
            /\ runErr[a] = <<>>

\* The unsuccessful tool results among a sequence of produced events.
FailedResults(s) ==
    LET Test(e) == e.status = StatusToolResult /\ e.agentName = ""
                   /\ ~e.toolResults[1].success
    IN SelectSeq(s, Test)

C8_ToolNotFound ==
    \A a \in Agents :
        /\ \A i \in 1..Len(produced[a]) :
              LET e == produced[a][i] IN
              (e.status = StatusToolExecuting /\ e.agentName = ""
               /\ e.toolExecuting.name \notin ToolNames(a) /\ i < Len(produced[a])) =>
                  produced[a][i + 1] =
                      ResultChunk(ToolResult(e.toolExecuting.id, e.toolExecuting.name, FALSE,
                                             <<>>, <<"tool not found: ", e.toolExecuting.name>>))
        /\ LET known == {i \in DOMAIN ExecutedCalls(a) : ExecutedCalls(a)[i].name \in ToolNames(a)}
           IN handlerCalls[a] <= Cardinality(known)
        /\ (RunEnded(a)
            /\ \E i \in 1..Len(IterationEvents(a)) :
                  LET e == IterationEvents(a)[i] IN
                  /\ e.status = StatusToolResult /\ e.agentName = ""
                  /\ e.toolResults[1].error = <<"tool not found: ", e.toolResults[1].toolName>>) =>
              /\ modelCalls[a] = maxToolIterations[a]
              /\ runErr[a] = MaxIterationsError(maxToolIterations[a])

\* C8, reached: the second model call of a Run has been made after a
\* tool-not-found result carrying the id of the call, and the one handler
\* invocation of the Run is that of the valid call of the same iteration.
C8_Witness ==
    /\ modelCalls["main"] = 2
    /\ produced["main"][3].status = StatusToolResult
    /\ produced["main"][3].toolResults[1].error = <<"tool not found: ", "bogus">>
    /\ produced["main"][3].toolResults[1].toolCallID = produced["main"][2].toolExecuting.id
    /\ handlerCalls["main"] = 1

\* C9: for the tools built on the validation helpers, a call in which the
\* required parameter x is absent, every parameter declared before x being in
\* order, is answered by success=false with the error "missing required
\* parameter: x", and a present parameter of the wrong type fails validation
\* too; the handlers invoked in a Run are exactly the executed calls to known
\* tools whose arguments are all in order, so a failed validation leaves the
\* handler's invocation count unchanged.
C9_ValidationFailureSkipsHandler ==
    /\ \A tool \in {"foo", "delegate"} :
       \A args \in SUBSET {Arg(n, v) : n \in {"echo", "subAgent", "message"},
                                       v \in {Str("hi"), Num("1")}} :
          LET params == Parameters(tool)
              v == ValidateAndExtractArgs(tool, args)
          IN (\A e1 \in args : \A e2 \in args : e1.name = e2.name => e1 = e2) =>
             /\ \A i \in 1..Len(params) :
                   (/\ \A j \in 1..(i - 1) : ParamOk(params[j], args)
                    /\ params[i].Required
                    /\ ~Exists(args, params[i].Name)) =>
                       /\ v.failed
                       /\ ~v.ret.success
                       /\ v.ret.error = <<"missing required parameter: ", params[i].Name>>
             /\ v.failed <=> ~ArgsOk(tool, args)
    /\ \A a \in Agents :
          LET valid == {i \in DOMAIN ExecutedCalls(a) :
                            /\ ExecutedCalls(a)[i].name \in ToolNames(a)
                            /\ ArgsOk(ExecutedCalls(a)[i].name, ExecutedCalls(a)[i].args)}
          IN handlerCalls[a] = Cardinality(valid)
    /\ \A a \in Agents : \A i \in 1..Len(produced[a]) :
          LET e == produced[a][i] IN
          (e.status = StatusToolExecuting /\ e.agentName = "" /\ i < Len(produced[a])
           /\ e.toolExecuting.name = "foo" /\ ~Exists(e.toolExecuting.args, "echo")) =>
              /\ produced[a][i + 1].status = StatusToolResult
              /\ ~produced[a][i + 1].toolResults[1].success
              /\ produced[a][i + 1].toolResults[1].error = <<"missing required parameter: ", "echo">>

\* C9, reached: the result of a foo call without its required argument has
\* been produced, and no handler has been invoked in the Run.
C9_Witness ==
    /\ pc["main"] = "addToolMessage"
    /\ CurrentCall("main").name = "foo"
    /\ ~Exists(CurrentCall("main").args, "echo")
    /\ Last(produced["main"]).status = StatusToolResult
    /\ Last(produced["main"]).toolResults[1].error = <<"missing required parameter: ", "echo">>
    /\ handlerCalls["main"] = 0

\* C10 as stated: the messages passed to a model call contain, for every
\* unsuccessful tool result produced before it in the Run, a tool message with
\* that call's id whose content conveys the result's error text.
C10_FailureTextReachesModel ==
    \A a \in Agents :
        modelCalls[a] > 0 =>
            \A i \in 1..iterStart[a] :
                LET e == produced[a][i] IN
                (e.status = StatusToolResult /\ e.agentName = "" /\ ~e.toolResults[1].success) =>
                    \E k \in 1..Len(lastMessages[a]) :
                        /\ lastMessages[a][k].role = "tool"
                        /\ lastMessages[a][k].toolCallID = e.toolResults[1].toolCallID
                        /\ Conveys(lastMessages[a][k].content, e.toolResults[1].error)

\* The position of the latest delegation-start marker in what p produced (0:
\* none), and the events p produced after it.
LastStartMarker(p) ==
    LET at == {i \in 1..Len(produced[p]) : produced[p][i] = DelegationStartMarker("sub")}
    IN IF at = {} THEN 0 ELSE CHOOSE i \in at : \A j \in at : j <= i
AfterStartMarker(p) == SubSeq(produced[p], LastStartMarker(p) + 1, Len(produced[p]))

\* The events the delegate handler of p has taken from the child's Start() and
\* forwarded (the one it holds between receiving and forwarding excluded).
Relayed(p) ==
    IF pc[p] = "delegateForward"
    THEN SubSeq(received["sub"], 1, Len(received["sub"]) - 1)
    ELSE received["sub"]

\* The relay itself: what the parent produced after a delegation-start marker
\* begins with the events the handler received from the child's Start(), each
\* once and in order; until the handler sends the delegation-complete marker
\* nothing else has been produced after the start marker, and the complete
\* marker, sent after the child's channel closed, is the next event.
RelayedSpanIsContiguous ==
    \A p \in Agents :
        LastStartMarker(p) > 0 =>
            LET after == AfterStartMarker(p)
                n == Len(Relayed(p))
            IN /\ Len(after) >= n
               /\ SubSeq(after, 1, n) = Relayed(p)
               /\ pc[p] \in {"delegateRecv", "delegateForward", "delegateEnd"} => Len(after) = n
               /\ pc[p] = "delegateEnd" => startPc["sub"] = "done"
               /\ pc[p] \notin {"delegateRecv", "delegateForward", "delegateEnd"} =>
                     /\ Len(after) > n
                     /\ after[n + 1] = DelegationCompleteMarker("sub")
                     /\ startPc["sub"] = "done"

\* The events the child's Run put on its stream, as its Start() decodes them.
ChildEvents(c) == [i \in 1..Len(produced[c]) |-> Decode(produced[c][i], c)]

\* C11 as stated: once the delegation-complete marker has been sent, the
\* parent's stream holds, right after the delegation-start marker, every event
\* of the child's stream in the child's order, none missing and none
\* duplicated, and right after them the complete marker.
C11_DelegationSpanHoldsEveryChildEvent ==
    \A p \in Agents :
        (LastStartMarker(p) > 0
         /\ pc[p] \notin {"delegateRecv", "delegateForward", "delegateEnd"}) =>
            LET after == AfterStartMarker(p)
                n == Len(ChildEvents("sub"))
            IN /\ Len(after) > n
               /\ SubSeq(after, 1, n) = ChildEvents("sub")
               /\ after[n + 1] = DelegationCompleteMarker("sub")

\* The delegate call of p has returned from a delegation that was started.
DelegationReturned(p) ==
    /\ LastStartMarker(p) > iterStart[p]
    /\ pc[p] \in {"sendResult", "addToolMessage"}
    /\ CurrentCall(p).name = "delegate"

\* The content-delta events among a sequence of events.
ContentDeltas(s) ==
    LET Test(e) == e.status = StatusStreaming IN SelectSeq(s, Test)

\* C12 as stated: the result text of a delegate outcome is the concatenation,
\* in order, of the text of the content-delta events forwarded from the child
\* during the delegation, and of nothing else.
C12_DelegateResultIsContentDeltas ==
    \A p \in Agents :
        DelegationReturned(p) =>
            toolResult[p][1].result = ContentOf(ContentDeltas(received["sub"]))

\* C13 as stated: a delegate outcome has success=false, with the delegation
\* error built from the child's error, exactly when the child's Run ended with
\* an error, and success=true exactly when it did not.
C13_DelegateFailsIffChildFailed ==
    \A p \in Agents :
        DelegationReturned(p) =>
            /\ toolResult[p][1].success <=> runErr["sub"] = <<>>
            /\ ~toolResult[p][1].success =>
                  toolResult[p][1].error = <<"delegation error: ">> \o runErr["sub"]

\* The positions of the delegation-start markers in what p produced, and for
\* one of them the position just before the next one (or the end).
StartMarkers(p) == {i \in 1..Len(produced[p]) : produced[p][i] = DelegationStartMarker("sub")}
SpanEnd(p, s) ==
    LET later == {i \in StartMarkers(p) : i > s}
    IN IF later = {} THEN Len(produced[p]) ELSE (CHOOSE i \in later : \A j \in later : i <= j) - 1

OriginOf(i) ==
    LET sent == SentOnResponse("main")
        r == received["main"]
    IN IF /\ i <= Len(sent)
          /\ ~(i = Len(r) /\ OwnError(r[i], "main"))
          /\ sent[i].agentName # ""
       THEN "sub" ELSE "main"

\* C15 as stated: every event reaches the top-level consumer with the name and
\* the trace label of the agent in which it originated.
C15_EventsKeepOriginIdentity ==
    \A i \in 1..Len(received["main"]) :
        /\ received["main"][i].agentName = OriginOf(i)
        /\ received["main"][i].trace = trace[OriginOf(i)]

UserMessagesOf(h) == LET Test(m) == m.role = "user" IN SelectSeq(h, Test)

\* C16: the messages passed to a model call of the sub agent contain no
\* message of the main agent's history; they begin with the sub agent's own
\* system message, and their user messages are the message arguments of the
\* delegations made to it, one per delegation.
C16_ChildSeesOnlyDelegationMessage ==
    modelCalls["sub"] > 0 =>
        LET msgs == lastMessages["sub"] IN
        /\ \A k \in 1..Len(msgs) : \A j \in 1..Len(history["main"]) :
              msgs[k] # history["main"][j]
        /\ msgs[1] = SystemMessage(<<"You are an helpful assistant">>)
        /\ Len(UserMessagesOf(msgs)) = runs["sub"]
        /\ \A k \in 1..Len(UserMessagesOf(msgs)) :
              UserMessagesOf(msgs)[k] = UserMessage(<<"task">>)
        /\ \A k \in 2..Len(msgs) :
              \/ msgs[k].role = "user"
              \/ /\ msgs[k].role = "assistant"
                 /\ \A i \in 1..Len(msgs[k].toolCalls) : msgs[k].toolCalls[i].id[1] = "sub"
              \/ msgs[k].role = "tool" /\ msgs[k].toolCallID[1] = "sub"

\* C16, reached: the sub agent's model is called with its system message and
\* the delegation message alone, while the main agent's history holds its own
\* system message, the user's message and the assistant message with the call.
C16_Witness ==
    /\ pc["sub"] = "select"
    /\ lastMessages["sub"] = <<SystemMessage(<<"You are an helpful assistant">>),
                               UserMessage(<<"task">>)>>
    /\ Len(history["main"]) >= 3
    /\ history["main"][2] = UserMessage(<<"hello">>)

\* ------------------------------------------------------------------ C18
\* How many of the lines of a prompt text are the given line.
Occurrences(text, line) == Cardinality({i \in 1..Len(text) : text[i] = line})

\* The system messages of a history.
SystemMessagesOf(h) == {i \in 1..Len(h) : h[i].role = "system"}

\* The prompt text of an agent after its first ChatStream: the configured
\* prompt, the main-agent preamble, then the listing of its sub-agents.
FirstPrompt(a) ==
    (IF a = "main" THEN <<"You are a main agent", "[SYSTEM] MAIN agent">>
     ELSE <<"You are an helpful assistant">>)
    \o (IF Len(subAgents[a]) = 0 THEN <<>> ELSE <<"=== SUB AGENTS ===">> \o subAgents[a])

\* C18: prompt construction and sub-agent description injection are
\* idempotent: after any number k >= 1 of ChatStream calls on one Agent its
\* system prompt text is the one the first call left, the main-agent preamble
\* and the sub-agent listing are in it exactly once, and the system message of
\* its history carries that same text.
C18_PromptConstructionIsIdempotent ==
    \A a \in Agents :
        runs[a] >= 1 =>
            /\ systemPrompt[a] = FirstPrompt(a)
            /\ MainAgent(a) => Occurrences(systemPrompt[a], "[SYSTEM] MAIN agent") = 1
            /\ Len(subAgents[a]) > 0 =>
                   Occurrences(systemPrompt[a], "=== SUB AGENTS ===") = 1
            /\ \A i \in SystemMessagesOf(history[a]) :
                   history[a][i].content = FirstPrompt(a)

\* ------------------------------------------------------------------ C17
\* C17: once ChatStream has been called on an Agent, whatever the number of
\* calls and of history reloads from persistence, the agent's history holds
\* exactly one system message, and it is the first message.
C17_OneSystemMessageAtIndexZero ==
    \A a \in Agents :
        runs[a] >= 1 => SystemMessagesOf(history[a]) = {1}

\* ------------------------------------------------------------------ C19
\* The tool messages of a history.
ToolMessagesOf(h) == {i \in 1..Len(h) : h[i].role = "tool"}

\* The ids of the tool calls the assistant messages before index i carry.
CallIdsBefore(h, i) ==
    UNION {{h[j].toolCalls[k].id : k \in 1..Len(h[j].toolCalls)} :
              j \in {n \in 1..(i - 1) : h[n].role = "assistant"}}

\* The producer is executing or answering the tool calls of the iteration.
ExecutingTools(a) ==
    pc[a] \in {"execTools", "executeTool", "sendResult", "addToolMessage",
               "delegateStart", "delegateRecv", "delegateForward", "delegateEnd"}

\* C19: in every history state, reloaded from persistence or not, the
\* toolCallID of each tool message is the id of a tool call carried by an
\* assistant message earlier in the same history; and while the calls of an
\* iteration are being executed or answered, the assistant message carrying
\* them is already the last assistant message of the history, followed only
\* by the tool messages of the calls answered so far.
C19_ToolMessageAnswersEarlierToolCall ==
    \A a \in Agents :
        /\ \A i \in ToolMessagesOf(history[a]) :
               history[a][i].toolCallID \in CallIdsBefore(history[a], i)
        /\ ExecutingTools(a) =>
               LET answered == callIndex[a] - 1
                   at == Len(history[a]) - answered
               IN /\ at >= 1
                  /\ history[a][at].role = "assistant"
                  /\ history[a][at].toolCalls = toolCalls[a]
                  /\ \A k \in 1..answered :
                         /\ history[a][at + k].role = "tool"
                         /\ history[a][at + k].toolCallID = toolCalls[a][k].id

\* A second Run on an agent whose reloaded history holds the tool messages of
\* the first Run, with a tool message of the second Run appended to it.
C19_Witness ==
    /\ runs["main"] = 2
    /\ faults = 0
    /\ \E i, j \in ToolMessagesOf(history["main"]) :
           /\ i < j
           /\ history["main"][i].toolCallID[2] = "1"
           /\ history["main"][j].toolCallID[2] = "2"

\* ------------------------------------------------------------------ C20
\* s is a prefix of t.
IsPrefix(s, t) == Len(s) <= Len(t) /\ \A i \in 1..Len(s) : s[i] = t[i]

\* C20: history is append-only: in every step of a Run and from one Run to
\* the next on the same Agent, the history before the step is a prefix of the
\* history after it, also when a save is lost or a read returns nothing.
C20_HistoryIsAppendOnly ==
    [][\A a \in Agents : IsPrefix(history[a], history'[a])]_vars

\* ------------------------------------------------------------------ C21
\* The iteration of a has tool calls and has got as far as executing them.
InToolPhase(a) ==
    \/ ExecutingTools(a)
    \/ pc[a] = "loop" /\ iteration[a] >= 1 /\ hasToolCalls[a]

\* The tool messages at the end of a's history, after the latest assistant
\* message.
ToolMessagesAtEnd(a) ==
    LET h == history[a]
        assistants == {i \in 1..Len(h) : h[i].role = "assistant"}
        from == IF assistants = {} THEN 0
                ELSE CHOOSE i \in assistants : \A j \in assistants : j <= i
    IN SubSeq(h, from + 1, Len(h))

\* C21: tool messages are not batched.  While the calls c1..cN of an
\* iteration are executed, and when they all have been, the history ends with
\* the assistant message carrying them and one tool message per call answered
\* so far, in call order; the tool-executing event of a call is emitted, and
\* its handler invoked, only with the tool messages of all the calls before it
\* in history; the tool message of a call is there as soon as the loop moves on
\* from it; after the last call there are exactly N of them.
C21_ToolMessagesAreNotBatched ==
    \A a \in Agents :
        InToolPhase(a) =>
            LET calls == toolCalls[a]
                answers == ToolMessagesAtEnd(a)
                executing == OwnOfStatus(IterationEvents(a), StatusToolExecuting)
                results == OwnOfStatus(IterationEvents(a), StatusToolResult)
            IN /\ Len(answers) <= Len(calls)
               /\ \A k \in 1..Len(answers) :
                      /\ answers[k].role = "tool"
                      /\ answers[k].toolCallID = calls[k].id
               /\ Len(executing) <= Len(answers) + 1
               /\ \A k \in 1..Len(executing) : executing[k].toolExecuting = calls[k]
               /\ pc[a] = "executeTool" => Len(answers) = callIndex[a] - 1
               /\ pc[a] = "addToolMessage" => Len(answers) = Len(results) - 1
               /\ pc[a] \in {"execTools", "loop"} => Len(answers) = Len(results)
               /\ pc[a] = "loop" => Len(answers) = Len(calls)

\* C21, reached: the third call of an iteration is about to be executed (its
\* tool-executing event is out, its handler not yet invoked) and the tool
\* messages of the first two calls are in history.
C21_Witness ==
    /\ pc["main"] = "executeTool"
    /\ callIndex["main"] = 3
    /\ Len(ToolMessagesAtEnd("main")) = 2
    /\ Len(OwnOfStatus(IterationEvents("main"), StatusToolExecuting)) = 3

\* ------------------------------------------------------------------ C22
\* The events of a Run that a's own engine sent on its stream (relayed events
\* carry the child's agentName), without the Run's error.
OwnEvents(a) ==
    SelectSeq(produced[a], LAMBDA e : e.agentName = "")

\* The grammar ( content* tool-call ( tool-executing tool-result )^n )*
\* content* completed as an acceptor.  phase "text": content deltas, a
\* tool-call event or completed may come; "executing": the tool-executing event
\* of call k must come; "result": the tool-result event of call k must come,
\* after content the tool itself injected; "end": completed has come, nothing
\* may follow; "reject": the sequence has left the grammar.
GrammarStart == [phase |-> "text", calls |-> <<>>, k |-> 0]
GrammarStep(st, e) ==
    LET reject == [phase |-> "reject", calls |-> <<>>, k |-> 0]
    IN CASE st.phase = "text" ->
              IF e.status = StatusStreaming THEN st
              ELSE IF e.status = StatusToolCall
              THEN IF Len(e.toolCalls) = 0 THEN st
                   ELSE [phase |-> "executing", calls |-> e.toolCalls, k |-> 1]
              ELSE IF e.status = StatusCompleted THEN [phase |-> "end", calls |-> <<>>, k |-> 0]
              ELSE reject
         [] st.phase = "executing" ->
              IF e.status = StatusToolExecuting /\ e.toolExecuting = st.calls[st.k]
              THEN [st EXCEPT !.phase = "result"]
              ELSE reject
         [] st.phase = "result" ->
              IF e.status = StatusStreaming THEN st
              ELSE IF /\ e.status = StatusToolResult
                      /\ Len(e.toolResults) = 1
                      /\ e.toolResults[1].toolCallID = st.calls[st.k].id
              THEN IF st.k = Len(st.calls) THEN GrammarStart
                   ELSE [st EXCEPT !.phase = "executing", !.k = st.k + 1]
              ELSE reject
         [] OTHER -> reject

RECURSIVE GrammarAfter(_, _)
GrammarAfter(st, s) == IF s = <<>> THEN st ELSE GrammarAfter(GrammarStep(st, Head(s)), Tail(s))

\* C22 (as the code has it): at every moment of a Run the agent's own events
\* are the beginning of a word of the grammar ( content-delta*
\* tool-call-requested ( tool-executing tool-result )^n )* content-delta*
\* completed, n being the number of calls of the tool-call-requested event:
\* tool-call-requested precedes the tool-executing events of its iteration,
\* each tool-executing is followed by its tool-result with nothing but content
\* injected by the tool (and relayed events) in between, and nothing follows
\* completed.  A Run that is over has no call left open; it ends with
\* completed, or with the Run's error in the place of completed, or (the model
\* call having ended without a completed chunk) with neither.
C22_OwnEventsArePrefixOfGrammar ==
    \A a \in Agents :
        LET st == GrammarAfter(GrammarStart, OwnEvents(a))
        IN /\ st.phase # "reject"
           /\ \A i \in 1..Len(produced[a]) :
                  Terminal(produced[a][i]) /\ OwnEvent(produced[a][i], a)
                      => i = Len(produced[a])
           /\ RunEnded(a) => st.phase \in {"text", "end"}

\* C22, reached: a Run is over whose events are a tool-call-requested event of
\* three calls, the three pairs of tool-executing and tool-result, and, from
\* the next model call, a content delta and completed.
C22_Witness ==
    /\ RunEnded("main")
    /\ GrammarAfter(GrammarStart, OwnEvents("main")).phase = "end"
    /\ Len(OwnOfStatus(produced["main"], StatusToolResult)) = 3
    /\ Len(OwnOfStatus(produced["main"], StatusStreaming)) >= 1
    /\ produced["main"][1].status = StatusToolCall

\* C22 as stated: the own events of every Run that is over are a word of the
\* grammar, completed being the last of them.
C22_OwnEventsFollowGrammar ==
    \A a \in Agents :
        RunEnded(a) => GrammarAfter(GrammarStart, OwnEvents(a)).phase = "end"

\* ------------------------------------------------------------------ C23
\* The Run of a has returned the iteration-cap error.
CapReached(a) ==
    /\ pc[a] \in {"close", "done"}
    /\ modelCalls[a] > 0
    /\ runErr[a] = <<"reached maximum tool iterations (", ToString(maxToolIterations[a]), ")">>

\* What the producer does at the iteration cap: the error is the last thing it
\* puts on the stream, it has sent no completed event in that Run, and the
\* history ends with the tool message of the last call, no assistant text
\* message having been added after it.
CapReachedProducerSide ==
    \A a \in Agents :
        CapReached(a) =>
            /\ produced[a] # <<>>
            /\ Last(produced[a]) = ErrorChunk(runErr[a], a)
            /\ \A i \in 1..Len(produced[a]) :
                   ~(produced[a][i].status = StatusCompleted /\ produced[a][i].agentName = "")
            /\ modelCalls[a] = maxToolIterations[a]
            /\ history[a] # <<>>
            /\ Last(history[a]).role = "tool"

\* C23: when the iteration cap N is reached, the terminal event of the Run's
\* stream is an error event with the text 'reached maximum tool iterations
\* (N)', no completed event is emitted in that Run and no final assistant text
\* message is added to history.
C23_IterationCapEndsInErrorEvent ==
    /\ CapReachedProducerSide
    /\ \A a \in Agents :
           (CapReached(a) /\ StreamClosed(a)) =>
               /\ received[a] # <<>>
               /\ Last(received[a]).status = StatusError
               /\ Last(received[a]).agentName = a
               /\ Last(received[a]).content =
                      <<"reached maximum tool iterations (", ToString(maxToolIterations[a]), ")">>
               /\ \A i \in 1..Len(received[a]) :
                      ~(received[a][i].status = StatusCompleted /\ received[a][i].agentName = a)

\* ------------------------------------------------------------------ C24
\* The producer goroutine of a's Run has terminated (or none was started).
ProducerTerminated(a) == pc[a] \in {"idle", "done"}

\* C24: once the context is cancelled, the producer of a Run does not stay
\* blocked in a send on the agent stream: its goroutine terminates, also when
\* the consumer has stopped receiving.
C24_CancelledProducerTerminates ==
    [](ctxDone => <>ProducerTerminated("main"))

\* ------------------------------------------------------------------ C25
\* The producer of a is at a send on the Response channel of its stream.
AtSend(a) ==
    \/ pc[a] \in {"forward", "sendCompleted", "sendResult",
                  "delegateStart", "delegateForward", "delegateEnd"}
    \/ pc[a] = "execTools" /\ callIndex[a] <= Len(toolCalls[a])

\* The Response buffer of a's stream is full.
BufferFull(a) == Len(Response[a]) = 10

\* The events sent on a's Response channel that the reader of Start() has not
\* received yet: those in the buffer and the one Start() holds.
Outstanding(a) ==
    Len(SentOnResponse(a)) - Len(SelectSeq(received[a], LAMBDA e : ~OwnError(e, a)))

\* C25 (as the code has it): the Response buffer never holds more events than
\* its capacity of 10 (with the one Start() is handing over, at most 11 are on
\* their way to the consumer); what is in the buffer is, in order, the tail of
\* what the producer sent, nothing of it having been dropped or overwritten;
\* and a producer that is at a send while the buffer is full takes no step: it
\* stays at that send, sends nothing and starts no tool handler and no model
\* call until an event has been taken out of the buffer.
C25_FullBufferBlocksSender ==
    /\ [](\A a \in Agents :
            LET sent == SentOnResponse(a)
            IN /\ Len(Response[a]) <= 10
               /\ Len(Response[a]) <= Len(sent)
               /\ SubSeq(sent, Len(sent) - Len(Response[a]) + 1, Len(sent)) = Response[a]
               /\ (pc[a] # "idle" /\ ~closed[a]) =>
                      Outstanding(a) = Len(Response[a]) + (IF startPc[a] = "send" THEN 1 ELSE 0))
    /\ [][\A a \in Agents :
            (AtSend(a) /\ BufferFull(a)) =>
                /\ pc'[a] = pc[a]
                /\ produced'[a] = produced[a]
                /\ handlerCalls'[a] = handlerCalls[a]
                /\ modelCalls'[a] = modelCalls[a]]_vars

\* C25, reached: the consumer has received some events and stopped, Start()
\* holds the next one, the buffer is full and the producer is at the send of a
\* tool-result event.
C25_Witness ==
    /\ BufferFull("main")
    /\ pc["main"] = "sendResult"
    /\ startPc["main"] = "send"
    /\ received["main"] # <<>>
    /\ Outstanding("main") = 11

\* C25 as stated: at most as many events as the capacity of the stream are
\* sent and not yet received by the consumer, and while the buffer is full and
\* stays full the producer starts no tool handler and no model call.
C25_FullBufferStopsProducer ==
    /\ [](\A a \in Agents : (pc[a] # "idle" /\ ~closed[a]) => Outstanding(a) <= 10)
    /\ [][\A a \in Agents :
            (BufferFull(a) /\ Len(Response'[a]) = 10) =>
                /\ handlerCalls'[a] = handlerCalls[a]
                /\ modelCalls'[a] = modelCalls[a]]_vars

\* ------------------------------------------------------------------ C26
\* The latest model call of a's Run is over and the engine loop has observed
\* neither a tool-call chunk nor a completed chunk nor an error of the LLM
\* sub-stream in it: the loop left the select through a closed channel.
EndedUnobserved(a) ==
    /\ RunEnded(a)
    /\ ~hasToolCalls[a]
    /\ completedChunk[a] = <<>>
    /\ runErr[a] # <<"llm stream error: ", "openai stream error: ", "EOF">>

\* C26: when the LLM sub-stream closes without the engine having observed a
\* completed, tool-call or error chunk in the model call, the Run ends as an
\* implicit, non-fatal end: executeChatWithTools returns no error, nothing is
\* put on the Error channel, no completed or error event is sent or delivered,
\* nothing is added to history for that model call, the stream is closed, and
\* no further model call is made in that Run.
C26_UnobservedEndIsImplicitEnd ==
    /\ [](\A a \in Agents :
            EndedUnobserved(a) =>
                /\ pc[a] \in {"close", "done"}
                /\ runErr[a] = <<>>
                /\ Error[a] = <<>>
                /\ \A i \in 1..Len(produced[a]) : ~Terminal(produced[a][i])
                /\ \A i \in 1..Len(received[a]) : ~Terminal(received[a][i])
                /\ history[a] = lastMessages[a]
                /\ pc[a] = "done" => closed[a])
    /\ [][\A a \in Agents :
            (EndedUnobserved(a) /\ runs'[a] = runs[a]) =>
                /\ modelCalls'[a] = modelCalls[a]
                /\ pc'[a] \in {"close", "done"}]_vars

\* C26, reached: the engine forwarded a content delta, then found the LLM
\* sub-stream closed; the Run is over, the stream has been read to closure and
\* the consumer has received the content delta and nothing else.
C26_Witness ==
    /\ EndedUnobserved("main")
    /\ pc["main"] = "done"
    /\ StreamClosed("main")
    /\ modelCalls["main"] = 1
    /\ Len(received["main"]) = 1
    /\ received["main"][1].status = StatusStreaming

\* ------------------------------------------------------------------ SetTools
\* The tool-result events the producer of a has sent in the current Run.
ResultsProduced(a) ==
    {produced[a][i].toolResults[1] :
        i \in {j \in 1..Len(produced[a]) : produced[a][j].status = StatusToolResult}}

\* C27: a SetTools call takes effect only for subsequent ChatStream calls.  A
\* Run in progress keeps the tool set its ChatStream found: every model call
\* of the Run is handed that tool set, and a tool call is answered "tool not
\* found" exactly when that tool set has no tool of that name.
C27_RunKeepsToolSetOfItsChatStream ==
    \A a \in Agents :
        /\ modelCalls[a] >= 1 => toolsSent[a] = toolsAtChatStream[a]
        /\ \A r \in ResultsProduced(a) :
               (r.error = <<"tool not found: ", r.toolName>>)
                   <=> ~(\E i \in 1..Len(toolsAtChatStream[a]) :
                            toolsAtChatStream[a][i] = r.toolName)

\* C28: whenever an agent has at least one sub-agent, its tool set contains
\* the delegate tool, after construction and after any sequence of SetTools
\* and ChatStream calls, and no delegate call is answered with
\* "tool not found: delegate".
C28_DelegateToolStaysConfigured ==
    \A a \in Agents :
        Len(subAgents[a]) > 0 =>
            /\ \E i \in 1..Len(tools[a]) : tools[a][i] = "delegate"
            /\ \A r \in ResultsProduced(a) :
                   r.toolName = "delegate" => r.error # <<"tool not found: ", "delegate">>

\* -------------------------------------------------------- logger, config
\* C29: GetLogger returns the same global logger instance on every call: for
\* any sequence and any interleaving of GetLogger and InitLogger calls from
\* several goroutines, all GetLogger callers obtain one and the same
\* instance.
C29_GetLoggerReturnsOneInstance ==
    Cardinality(UNION {obtained[g] : g \in Goroutines}) <= 1

\* The value the nearest .env file with a non-empty value gives key ("" when
\* no .env file has one).
DotEnvValue(key) ==
    LET holding == {i \in 1..Len(envFiles) :
                       /\ i <= 5
                       /\ envFiles[i].exists
                       /\ \E n \in 1..Len(envFiles[i].lines) :
                              /\ envFiles[i].lines[n] \in {<<key, v>> : v \in Values \ {""}}
                              /\ \A m \in (n + 1)..Len(envFiles[i].lines) :
                                     envFiles[i].lines[m][1] # key}
    IN IF holding = {} THEN ""
       ELSE LET i == CHOOSE x \in holding : \A y \in holding : x <= y
                n == CHOOSE x \in 1..Len(envFiles[i].lines) :
                         /\ envFiles[i].lines[x][1] = key
                         /\ \A m \in (x + 1)..Len(envFiles[i].lines) :
                                envFiles[i].lines[m][1] # key
            IN envFiles[i].lines[n][2]

\* C30: a key with a non-empty value in the system environment gets that
\* value, whatever the .env file says; the .env value is used only when the
\* system environment has none, and the default only when neither has one.
C30_SystemEnvironmentOverridesDotEnv ==
    \A k \in Keys :
        config[k] # <<>> =>
            config[k] = <<IF environ[k] # "" THEN environ[k]
                          ELSE IF DotEnvValue(k) # "" THEN DotEnvValue(k)
                          ELSE Default(k)>>

\* What the code does instead: the .env value first, then the system
\* environment, then the default.
ConfigDotEnvFirst ==
    \A k \in Keys :
        config[k] # <<>> =>
            config[k] = <<IF DotEnvValue(k) # "" THEN DotEnvValue(k)
                          ELSE IF environ[k] # "" THEN environ[k]
                          ELSE Default(k)>>

\* ------------------------------------------------------------------ C31
\* The handler of a delegate call is running (every other handler returns
\* within the step that invokes it).
HandlerRunning(a) ==
    pc[a] \in {"delegateStart", "delegateRecv", "delegateForward", "delegateEnd"}

\* C31: the calls of one tool-call chunk are dispatched strictly in list order
\* and one at a time.  The tool-executing and tool-result events of an
\* iteration are those of the calls 1, 2, ... in list order, with at most one
\* call announced and not yet answered; a handler is invoked only for the call
\* whose tool-executing event is the latest event of its kind, with the
\* tool-result events of all the calls before it emitted; a tool-result event
\* is emitted only once the handler has returned, and is the result of the
\* announced call; and a handler is invoked only while no other handler of the
\* Run is running.
C31_CallsDispatchedInOrderOneAtATime ==
    /\ [](\A a \in Agents :
            ExecutingTools(a) =>
                LET executing == OwnOfStatus(IterationEvents(a), StatusToolExecuting)
                    results == OwnOfStatus(IterationEvents(a), StatusToolResult)
                IN /\ Len(results) <= Len(executing)
                   /\ Len(executing) <= Len(results) + 1
                   /\ Len(executing) <= Len(toolCalls[a])
                   /\ \A k \in 1..Len(executing) :
                          executing[k].toolExecuting = toolCalls[a][k]
                   /\ \A k \in 1..Len(results) :
                          results[k].toolResults[1].toolCallID = toolCalls[a][k].id
                   /\ HandlerRunning(a) => Len(executing) = Len(results) + 1)
    /\ [][\A a \in Agents :
            LET executing == OwnOfStatus(IterationEvents(a), StatusToolExecuting)
                results == OwnOfStatus(IterationEvents(a), StatusToolResult)
                resultsSent == OwnOfStatus(produced[a], StatusToolResult)
                resultsSentAfter == OwnOfStatus(produced'[a], StatusToolResult)
            IN /\ handlerCalls'[a] > handlerCalls[a] =>
                      /\ ~HandlerRunning(a)
                      /\ handlerCalls'[a] = handlerCalls[a] + 1
                      /\ Len(executing) = callIndex[a]
                      /\ Len(results) = callIndex[a] - 1
                      /\ executing[Len(executing)].toolExecuting = toolCalls[a][callIndex[a]]
               /\ (runs'[a] = runs[a] /\ Len(resultsSentAfter) > Len(resultsSent)) =>
                      /\ ~HandlerRunning(a)
                      /\ pc[a] = "sendResult"
                      /\ Len(executing) = Len(results) + 1
                      /\ resultsSentAfter[Len(resultsSentAfter)].toolResults[1].toolCallID
                             = toolCalls[a][Len(executing)].id]_vars

\* C31, reached: the handler of the third call of a chunk has been invoked and
\* has returned, after the tool-executing events of the three calls and the
\* tool-result events of the first two; its own tool-result event is yet to be
\* emitted.
C31_Witness ==
    /\ pc["main"] = "sendResult"
    /\ callIndex["main"] = 3
    /\ handlerCalls["main"] = 1
    /\ Len(OwnOfStatus(IterationEvents("main"), StatusToolExecuting)) = 3
    /\ Len(OwnOfStatus(IterationEvents("main"), StatusToolResult)) = 2

\* ------------------------------------------------------------------ C32
\* C32: the tool message of a call is appended synchronously with the
\* production of its outcome: whenever the tool-result event of a call has
\* been emitted to the stream, the tool message of that call is already in
\* history.
C32_ToolMessageInHistoryWhenResultEmitted ==
    \A a \in Agents :
        \A i \in 1..Len(produced[a]) :
            (produced[a][i].status = StatusToolResult /\ produced[a][i].agentName = "") =>
                \E k \in 1..Len(history[a]) :
                    /\ history[a][k].role = "tool"
                    /\ history[a][k].toolCallID = produced[a][i].toolResults[1].toolCallID

\* What the code does instead: the tool message of a call is in history once
\* the loop has moved on from the call, and only the latest tool-result event
\* can be without it.
ToolMessageFollowsResult ==
    \A a \in Agents :
        \A i \in 1..Len(produced[a]) :
            (/\ produced[a][i].status = StatusToolResult
             /\ produced[a][i].agentName = ""
             /\ ~(pc[a] = "addToolMessage" /\ i = Len(produced[a]))) =>
                \E k \in 1..Len(history[a]) :
                    /\ history[a][k].role = "tool"
                    /\ history[a][k].toolCallID = produced[a][i].toolResults[1].toolCallID

\* ------------------------------------------------------------------ C33
\* What is wrong, if anything, with the argument given for the parameter at
\* position i of the validated tool.
ArgPresent(i) == \E e \in valArgs : e.name = valParams[i].Name
ArgValue(i) == (CHOOSE e \in valArgs : e.name = valParams[i].Name).val
MissingAt(i) == valParams[i].Required /\ ~ArgPresent(i)
WrongTypeAt(i) == ArgPresent(i) /\ ArgValue(i).type # valParams[i].Type
RejectedAt(i) ==
    /\ ArgPresent(i)
    /\ ~WrongTypeAt(i)
    /\ valParams[i].Validator = "nonEmpty"
    /\ ArgValue(i).value = ""
FailingParams ==
    {i \in 1..Len(valParams) : MissingAt(i) \/ WrongTypeAt(i) \/ RejectedAt(i)}

\* The place of a check among the checks of one parameter.
CheckRank(kind) == CASE kind = "required" -> 1 [] kind = "type" -> 2 [] OTHER -> 3

\* C33: parameters are validated in declaration order and, for each
\* parameter, in the order required-presence, type-check, custom validator.
\* The call fails exactly when some parameter fails; the error message is that
\* of the first check the first failing parameter fails; no parameter after it
\* is examined; the checks were made in declaration order and, within a
\* parameter, in the order presence, type, validator; and a validator is run
\* only on a value that has passed its type-check.
C33_ValidationOrder ==
    valOutcome # <<>> =>
        LET out == valOutcome[1]
            checks == out.checks
            last == IF FailingParams = {} THEN Len(valParams)
                    ELSE CHOOSE i \in FailingParams : \A j \in FailingParams : i <= j
        IN /\ out.failed <=> FailingParams # {}
           /\ FailingParams # {} =>
                  /\ ~out.ret.success
                  /\ out.ret.error =
                         IF MissingAt(last)
                         THEN <<"missing required parameter: ", valParams[last].Name>>
                         ELSE IF WrongTypeAt(last)
                         THEN <<"invalid type for ", valParams[last].Name, ": ", "expected ",
                                valParams[last].Type, ", got ", ArgValue(last).type>>
                         ELSE <<"validation failed for ", valParams[last].Name, ": ",
                                "must not be empty">>
           /\ \A k \in 1..Len(checks) : checks[k][2] <= last
           /\ \A i \in 1..last :
                  Cardinality({k \in 1..Len(checks) : checks[k] = <<"required", i>>}) = 1
           /\ \A k \in 1..Len(checks) : \A l \in (k + 1)..Len(checks) :
                  \/ checks[k][2] < checks[l][2]
                  \/ /\ checks[k][2] = checks[l][2]
                     /\ CheckRank(checks[k][1]) < CheckRank(checks[l][1])
           /\ \A k \in 1..Len(checks) :
                  checks[k][1] = "type" => ArgPresent(checks[k][2])
           /\ \A k \in 1..Len(checks) :
                  checks[k][1] = "validator" =>
                      /\ valParams[checks[k][2]].Validator # ""
                      /\ ~WrongTypeAt(checks[k][2])
                      /\ \E l \in 1..(k - 1) : checks[l] = <<"type", checks[k][2]>>

\* C33, reached: the first parameter has passed its type-check and its
\* validator; the second, which declares a validator too, has failed its
\* type-check, so its validator was not run and the message is the type error.
C33_Witness ==
    /\ valOutcome # <<>>
    /\ Len(valParams) = 2
    /\ valParams[1].Validator = "nonEmpty"
    /\ valParams[2].Validator = "nonEmpty"
    /\ valOutcome[1].failed
    /\ valOutcome[1].checks = <<<<"required", 1>>, <<"type", 1>>, <<"validator", 1>>,
                                <<"required", 2>>, <<"type", 2>>>>
    /\ valOutcome[1].ret.error =
           <<"invalid type for ", "y", ": ", "expected ", "number", ", got ", "string">>

\* ------------------------------------------------------------------ C34
\* Some Close call on the stream has returned.
SomeCloseReturned ==
    \E g \in Closers : closeCalls[g] >= 1 /\ (closePc[g] = "idle" \/ closeCalls[g] >= 2)

\* C34: Close may be called any number of times, one call after the other or
\* from several goroutines at once: no call panics, neither channel is ever
\* closed a second time, only the holder of the mutex is inside the body of
\* Close, and once a call has returned the Response and the Error channel have
\* each been closed exactly once.
C34_CloseClosesEachChannelOnce ==
    /\ ~rcPanicked
    /\ rcResponseCloses <= 1
    /\ rcErrorCloses <= 1
    /\ \A g \in Closers :
           closePc[g] \in {"check", "closeResponse", "closeError", "unlock"} => rcMu = g
    /\ rcClosed => (rcResponseCloses = 1 /\ rcErrorCloses = 1)
    /\ SomeCloseReturned => (rcClosed /\ rcResponseCloses = 1 /\ rcErrorCloses = 1)

\* C34, reached: every goroutine has called Close twice and every call has
\* returned, with each channel closed once.
C34_Witness ==
    /\ \A g \in Closers : closeCalls[g] = 2 /\ closePc[g] = "idle"
    /\ rcResponseCloses = 1
    /\ rcErrorCloses = 1
    /\ ~rcPanicked

\* ------------------------------------------------------------------ C35
\* C35: every event the producer placed on an agent stream before closing it
\* is received by the consumer of Start() before the consumer-side channel
\* closes: when that channel has closed, nothing is left in the Response
\* buffer or in the Error buffer, and the consumer has received as many events
\* as the producer sent, the Run's error included.
C35_ClosingDiscardsNothing ==
    \A a \in Agents :
        StreamClosed(a) =>
            /\ Response[a] = <<>>
            /\ Error[a] = <<>>
            /\ Len(received[a]) = Len(produced[a])

\* ------------------------------------------------------------------ C36
\* C36: every chunk the LLM engine placed on its response channel before
\* closing its stream is consumed by the engine loop before it decides that
\* the model call is over: when the loop leaves its select for
\* processToolCalls, the sub-stream's Response buffer holds nothing but the
\* completed chunk the loop is taking in that very step.
C36_NoBufferedChunkIsSkipped ==
    [][\A a \in Agents :
          (pc[a] = "select" /\ pc'[a] = "process") =>
              \/ llmResponse[a] = <<>>
              \/ /\ Len(llmResponse[a]) = 1
                 /\ llmResponse[a][1].status = StatusCompleted]_vars

\* ------------------------------------------------------------------ C37
\* The error a handler reports through the handle it is given.
HandlerError == <<"handler error">>

\* executeTool with a handler that uses the Error handle of the responseCh it
\* finds in its agent context (GetErrorChan() <- err, a blocking send) and
\* then returns as foo does.  A handler that would stay blocked in that send
\* is not considered: the handlers here all return.
ExecuteToolReportingError(a) ==
    /\ pc[a] = "executeTool"
    /\ LET call == CurrentCall(a)
           v == ValidateAndExtractArgs(call.name, call.args)
       IN /\ FindTool(tools[a], call.name)
          /\ ~v.failed
          /\ call.name # "delegate"
          /\ Len(Error[a]) < ErrorCap
          /\ Error' = [Error EXCEPT ![a] = Append(@, HandlerError)]
          /\ produced' = [produced EXCEPT ![a] = Append(@, ErrorChunk(HandlerError, a))]
          /\ handlerCalls' = [handlerCalls EXCEPT ![a] = @ + 1]
          /\ toolResult' = [toolResult EXCEPT ![a] =
                   <<ToToolResult(call, HandlerReturn(call.name, v.validated))>>]
          /\ pc' = [pc EXCEPT ![a] = "sendResult"]
    /\ UNCHANGED <<agentVars, iteration, fullContent, toolCalls, hasToolCalls, completedChunk,
                   chunkBytes, callIndex, runErr, delegateVars, llmVars, Response, closed,
                   startVars, runs, toolsAtChatStream, iterStart, modelCalls, toolRequests,
                   llmEmitted, lastMessages, toolsSent, delegations>>

\* The agent of Spec with handlers that may report on the Error handle.
NextSideChannel ==
    \/ Next
    \/ ExecuteToolReportingError("main")

\* Every goroutine is scheduled fairly and the consumer keeps receiving from
\* Start(): the producer, the LLM engine's streamResponse, Start() and the
\* user's range loop each take a step they are able to take.
SideChannelSpec ==
    /\ Init
    /\ [][NextSideChannel]_vars
    /\ WF_vars(ConsumerRecv)
    /\ WF_vars(Producer("main") \/ ExecuteToolReportingError("main"))
    /\ WF_vars(LLM("main"))
    /\ WF_vars(StartGoroutine("main"))

\* The Run of a has terminated: its stream is closed and its producer
\* goroutine has exited.
RunTerminated(a) == pc[a] = "done" /\ closed[a]

\* A Run of a is under way.
RunUnderWay(a) == pc[a] \notin {"idle", "done"}

\* C37: when the consumer keeps receiving from Start(), every model call's
\* sub-stream closes and every handler returns, every Run terminates: its
\* stream is eventually closed and its producer goroutine exits, also when a
\* handler uses the Response or the Error handle while it runs.
C37_EveryRunTerminates ==
    \A a \in Agents : [](RunUnderWay(a) => <>RunTerminated(a))

\* No handler has reported on the Error handle.
HandlerLeftErrorHandleAlone ==
    \A a \in Agents : \A i \in 1..Len(produced[a]) : produced[a][i].content # HandlerError

\* On the behaviours in which no handler uses the Error handle, every Run
\* terminates.
RunsTerminateWithoutErrorHandle ==
    \A a \in Agents : []HandlerLeftErrorHandleAlone => [](RunUnderWay(a) => <>RunTerminated(a))

\* ------------------------------------------------------------------ C38
\* This step puts a value on the Response or the Error channel of a's stream.
SendsOn(a) ==
    \/ Len(Response'[a]) > Len(Response[a])
    \/ Len(Error'[a]) > Len(Error[a])

\* C38: nothing is sent on the Response or the Error channel of a stream once
\* that stream is closed: the engine, the delegate handler with its relayed
\* chunks and markers, and the final error all send before the deferred Close
\* of their Run, and a closed stream is the stream of a producer that has
\* exited.
C38_NoSendOnClosedStream ==
    /\ [](\A a \in Agents : closed[a] => pc[a] = "done")
    /\ [][\A a \in Agents : SendsOn(a) => ~closed[a] /\ pc[a] \notin {"close", "done"}]_vars

\* Both Runs of a delegation are over and closed; the parent has relayed an
\* event of the child and has ended with an error on its Error channel.
C38_Witness ==
    /\ closed["main"] /\ closed["sub"]
    /\ pc["main"] = "done" /\ pc["sub"] = "done"
    /\ produced["sub"] # <<>>
    /\ \E i \in 1..Len(produced["main"]) : produced["main"][i].agentName = "sub"
    /\ runErr["main"] # <<>>
    /\ Last(produced["main"]) = ErrorChunk(runErr["main"], "main")

\* ------------------------------------------------------------------ C39
\* The main agent with a sub-agent that keeps its history in a JSON file.
InitRedelegation ==
    /\ ProgramStart
    /\ NewAgents([a \in Agents |-> IF a = "main" THEN <<"sub">> ELSE <<>>],
                 [a \in Agents |-> DelegMaxIter],
                 [a \in Agents |-> IF a = "main" THEN "response" ELSE "reasoning"],
                 [a \in Agents |-> IF a = "sub" THEN "json" ELSE ""])

\* streamResponse: a tool-call chunk that asks for two delegations to the same
\* sub-agent, one after the other.
LLMDelegatesTwice(a) ==
    /\ llmPc[a] = "stream"
    /\ Len(llmResponse[a]) < ResponseCap
    /\ LET calls == <<DelegateCall(CallId(a, 1), "sub"), DelegateCall(CallId(a, 2), "sub")>>
       IN /\ llmResponse' = [llmResponse EXCEPT ![a] = Append(@, ToolCallChunk(calls))]
          /\ llmEmitted' = [llmEmitted EXCEPT ![a] = Append(@, ToolCallChunk(calls))]
          /\ delegations' = [delegations EXCEPT ![a] = @ + Len(calls)]
    /\ llmPc' = [llmPc EXCEPT ![a] = "final"]
    /\ toolRequests' = [toolRequests EXCEPT ![a] = @ + 1]
    /\ UNCHANGED <<agentVars, pc, loopVars, delegateVars, llmSent, llmError, llmClosed,
                   streamVars, startVars, runs, toolsAtChatStream, produced, iterStart, modelCalls,
                   lastMessages, toolsSent, handlerCalls>>

\* The main agent's model delegates twice or answers at once; the sub-agent's
\* model answers with text or fails; the context is never cancelled.
NextRedelegation ==
    \/ UserChatStream
    \/ ConsumerRecv
    \/ Producer("main") \/ StartGoroutine("main")
    \/ LLMDelegatesTwice("main") \/ LLMCompleted("main") \/ LLMClose("main")
    \/ Delegate("main")
    \/ Producer("sub") \/ StartGoroutine("sub")
    \/ LLMContent("sub") \/ LLMStreamFails("sub") \/ LLMCompleted("sub") \/ LLMClose("sub")

RedelegationSpec == InitRedelegation /\ [][NextRedelegation]_vars

\* C39: the history of a sub-agent instance persists across delegations: a
\* further delegation adds the delegation message, as a user message, to the
\* history the instance holds from its earlier Runs, and the child's model
\* is then called with exactly that: the single system message first, the
\* messages of the earlier Runs in order, the new user message last.
C39_SubAgentHistoryPersists ==
    /\ [][(runs["sub"] >= 1 /\ runs'["sub"] = runs["sub"] + 1) =>
              history'["sub"] = history["sub"] \o <<UserMessage(<<"task">>)>>]_vars
    /\ [][(runs["sub"] >= 2 /\ modelCalls'["sub"] = modelCalls["sub"] + 1) =>
              /\ lastMessages'["sub"] = history["sub"]
              /\ Len(history["sub"]) >= 3
              /\ history["sub"][1] = SystemMessage(<<"You are an helpful assistant">>)
              /\ SystemMessagesOf(history["sub"]) = {1}
              /\ history["sub"][2] = UserMessage(<<"task">>)
              /\ Last(history["sub"]) = UserMessage(<<"task">>)
              /\ Len(UserMessagesOf(history["sub"])) = runs["sub"]]_vars

====
